---------------------------- MODULE Spec2Model ----------------------------
(***************************************************************************)
(* Relayed meta-transactions of LACNetNetworks/deployContract-metaTx.      *)
(*                                                                         *)
(* The model covers lib/metaTxExecute.ts and lib/metaTxDeploy.ts           *)
(* (executeViaMetaTx, deployViaMetaTx), meta-exec-lib/src/index.ts         *)
(* (prepareForward, signForward, executeForward), lib/src/metaTxAbi.ts     *)
(* (createForwardRequest, forwardToTuple), contracts/Storage.sol, and the  *)
(* network they talk to: the relayer's transaction counter, the pending    *)
(* pool with its zero price bump replacement rule, block inclusion, and    *)
(* the PermissionedMetaTxHub verifier behind HUB_ABI.                      *)
(*                                                                         *)
(* Every await of the TypeScript code that touches the network is a        *)
(* separate action, so concurrent pipelines interleave exactly at the      *)
(* suspension points of the code.                                          *)
(***************************************************************************)
EXTENDS Integers, Sequences, FiniteSets, TLC

(***************************************************************************)
(* Bounds of the model.                                                    *)
(***************************************************************************)
\* highest relayer counter value a caller passes explicitly as txNonce
MaxTxNonce == 1
\* generateSecureNonce draws its random suffix from 0..MaxRand
MaxRand == 1
\* number of clock advances the environment makes
MaxTicks == 1
\* UNIX time, in seconds, of the first state
StartTime == 5000
\* largest argument of Storage.store a caller uses
MaxValue == 2
\* width in bits of the words of Storage, in place of the 256 of uint256
UintBits == 4
\* number of raw transactions the replacement tests submit
MaxSubmissions == 3
\* a deadlineSec, in seconds, a caller of prepareForward supplies
SuppliedDeadlineSec == 60

(***************************************************************************)
(* Program constants.                                                      *)
(***************************************************************************)
ExecDefaultDeadlineSec == 3600
ExecDefaultGasLimit == 3000000
DeployDefaultDeadlineSec == 3600
DeployDefaultGasLimit == 10000000
PrepareDefaultDeadlineSec == 600
ChainId == 648540
ZeroGasPrice == 0
TestGasLimitLow == 80000
TestGasLimitHigh == 120000

\* The pipelines that may run concurrently on the one relayer account.
Procs == {"p1", "p2"}

(***************************************************************************)
(* Optional values: undefined is the empty set, a defined value v is {v}.  *)
(***************************************************************************)
None == {}
Some(v) == {v}
IsNone(x) == x = {}
Get(x) == CHOOSE v \in x : TRUE
\* JavaScript's  x ?? d
OrElse(x, d) == IF x = {} THEN d ELSE CHOOSE v \in x : TRUE

(***************************************************************************)
(* Addresses.                                                              *)
(***************************************************************************)
ZeroAddress == "0x0"
HubAddress == "hub"
StorageAddress == "storage"
SenderAddress == "sender"
RelayerAddress == "relayer"
User1Address == "user1"
\* a string that is no address
BadAddress == "not-an-address"

\* ethers.isAddress
IsAddress(a) ==
    a \in {ZeroAddress, HubAddress, StorageAddress, SenderAddress, RelayerAddress,
           User1Address}

(***************************************************************************)
(* Byte strings are sequences; "0x" and "" are the empty sequence.         *)
(***************************************************************************)
EmptyBytes == << >>

\* storage.interface.encodeFunctionData("store", [v])
EncodeStore(v) == <<"store", v>>

\* encodeFunctionData of the other functions of Storage
EncodeIncrement == <<"increment">>
EncodeReset == <<"reset">>
EncodeTransferOwnership(newOwner) == <<"transferOwnership", newOwner>>

\* ethers.keccak256: a collision free digest of the exact bytes given
keccak256(bytes) == <<"keccak256">> \o bytes

\* StorageFactory.bytecode and the ABI encoding of the constructor arguments
StorageBytecode == <<"bytecode", "Storage">>
AbiEncodeArgs(types, args) == <<"abi">> \o types \o args


(***************************************************************************)
(* lib/src/metaTxAbi.ts                                                    *)
(***************************************************************************)
\* EIP712_DOMAIN
EIP712_DOMAIN_NAME == "PermissionedMetaTxHub"
EIP712_DOMAIN_VERSION == "1"

\* FORWARD_TYPE: the typed-data schema, field names in order
FORWARD_TYPE ==
    <<"from", "to", "value", "space", "nonce", "deadline", "dataHash", "caller">>

\* the schema prepareForward builds when hasCaller is false
FORWARD_TYPE_NO_CALLER ==
    <<"from", "to", "value", "space", "nonce", "deadline", "dataHash">>

\* number of fields of the tuple in EXECUTE_SIG
ExecuteTupleArity == Len(FORWARD_TYPE)

\* createForwardRequest; value and space are optional, nonce may be undefined
createForwardRequest(from, to, value, space, nonce, deadline, dataHash, caller) ==
    [from |-> from, to |-> to, value |-> OrElse(value, 0), space |-> OrElse(space, 0),
     nonce |-> nonce, deadline |-> deadline, dataHash |-> dataHash, caller |-> caller]

\* a faulty variant of forwardToTuple: caller listed first
forwardToTupleCallerFirst(forward) ==
    <<forward.caller, forward.from, forward.to, forward.value, forward.space,
      forward.nonce, forward.deadline, forward.dataHash>>

\* forwardToTuple
forwardToTuple(forward) ==
    <<forward.from, forward.to, forward.value, forward.space, forward.nonce,
      forward.deadline, forward.dataHash, forward.caller>>

\* the forward the catch blocks of executeViaMetaTx and deployViaMetaTx return
EmptyForward ==
    createForwardRequest("", "", Some(0), Some(0), Some(0), 0, EmptyBytes, "")

(***************************************************************************)
(* Typed-data signing (ethers Wallet.signTypedData) and its verification.  *)
(***************************************************************************)
Domain(name, version, chainId, verifyingContract) ==
    [name |-> name, version |-> version, chainId |-> chainId,
     verifyingContract |-> verifyingContract]

\* the values of a message in the order of the schema
TypedValues(types, message) == [i \in 1..Len(types) |-> message[types[i]]]

\* the fields of the schema of type address
AddressFields == {"from", "to", "caller"}

\* signing throws when a field of the schema has no value in the message, or
\* an address field holds no address; fields outside the schema are ignored
CanSign(types, message) ==
    /\ \A i \in 1..Len(types) : types[i] \in DOMAIN message
    /\ "nonce" \in DOMAIN message => ~IsNone(message.nonce)
    /\ \A i \in 1..Len(types) :
          types[i] \in AddressFields => IsAddress(message[types[i]])

\* deterministic signature of signer over (domain, schema, message)
SignTypedData(signer, domain, types, message) ==
    <<signer, domain, types, TypedValues(types, message)>>

\* a faulty variant of Recover: the schema is left out of the digest, and the
\* values are compared as far as the signed ones go
RecoverIgnoringSchema(sig, domain, types, values) ==
    IF Len(sig) = 4 /\ sig[2] = domain /\ Len(sig[4]) <= Len(values)
       /\ sig[4] = SubSeq(values, 1, Len(sig[4]))
    THEN sig[1] ELSE "unrelated"

\* the address a verifier recovers from a signature for (domain, schema, values)
Recover(sig, domain, types, values) ==
    IF Len(sig) = 4 /\ sig[2] = domain /\ sig[3] = types /\ sig[4] = values
    THEN sig[1] ELSE "unrelated"

\* hubInterface.encodeFunctionData("execute", [tuple, payload, signature])
EncodeExecute(fTuple, payload, sig) == <<"execute", fTuple, payload, sig>>

\* encoding throws unless the tuple has the arity of EXECUTE_SIG
CanEncodeExecute(fTuple) == Len(fTuple) = ExecuteTupleArity

(***************************************************************************)
(* Transactions.                                                           *)
(***************************************************************************)
Tx(from, to, data, nonce, gasLimit, gasPrice, value) ==
    [from |-> from, to |-> to, data |-> data, nonce |-> nonce,
     gasLimit |-> gasLimit, gasPrice |-> gasPrice, value |-> value]

\* tx.hash: the digest of the signed transaction
TxHash(t) ==
    <<"tx", t.from, t.to, t.nonce, t.gasLimit, t.gasPrice, t.value, t.data>>


(***************************************************************************)
(* State.                                                                  *)
(***************************************************************************)
VARIABLES
    \* one relay pipeline (one invocation of a library function) per process
    pc,            \* the await the invocation is suspended at
    params,        \* the arguments of the invocation
    forward,       \* the Forward built, as a message (undefined before)
    signature,     \* the signature obtained
    prepared,      \* the PrepareForwardResult of prepareForward
    executeData,   \* the encoded execute call
    finalTxNonce,  \* the relayer counter value assigned to the transaction
    gasLimit,      \* the gas limit executeForward settled on
    estimate,      \* the estimateGas request executeForward made, and its outcome
    tx,            \* the transaction response of sendTransaction
    result,        \* what the invocation returned
    trail,         \* per invocation: the network requests it has made, in order
    batch,         \* per invocation: the executeBatchViaMetaTx loop that made it
    \* the network
    txCount,       \* per account: number of its transactions included so far
    pool,          \* pending transactions, at most one per (account, counter)
    accepted,      \* transactions the pool admitted, in order of admission
    receipts,      \* receipts of the included transactions
    blockNumber,
    now,           \* UNIX time in seconds
    \* the PermissionedMetaTxHub verifier
    usedNonces,    \* consumed (from, space, nonce) triples
    allowed,       \* callers on the allowlist
    executions,    \* Forward tuples whose payload the hub has run, in order
    deployed,      \* addresses of the contracts the hub has created
    \* contracts/Storage.sol
    storedNumber,
    owner,
    lastCall       \* the latest call made of Storage by SendToStorage, with its outcome

procVars == <<pc, params, forward, signature, prepared, executeData, finalTxNonce, gasLimit,
              estimate, tx, result, trail, batch, lastCall>>
netVars == <<txCount, pool, accepted, receipts, blockNumber>>
hubVars == <<usedNonces, allowed, executions, deployed>>
chainVars == <<txCount, pool, accepted, receipts, blockNumber, usedNonces, executions,
               deployed, storedNumber, owner>>
vars == <<pc, params, forward, signature, prepared, executeData, finalTxNonce, gasLimit,
          estimate, tx, result, trail, batch,
          txCount, pool, accepted, receipts, blockNumber, now,
          usedNonces, allowed, executions, deployed, storedNumber, owner, lastCall>>

Accounts == {RelayerAddress, User1Address}

(***************************************************************************)
(* The network provider: counters, the pending pool, receipts.             *)
(***************************************************************************)
\* provider.getTransactionCount(account, "latest")
LatestCount(account) == txCount[account]

RECURSIVE PendingFrom(_, _)
PendingFrom(account, n) ==
    IF \E t \in pool : t.from = account /\ t.nonce = n
    THEN PendingFrom(account, n + 1) ELSE n

\* provider.getTransactionCount(account, "pending")
PendingCount(account) == PendingFrom(account, txCount[account])

\* a faulty variant of GetTransactionReceipt: the receipt is looked up by the
\* sender and counter value of the transaction instead of its hash
GetReceiptByCounter(hash) == {r \in receipts : r.from = hash[2] /\ r.nonce = hash[4]}

\* provider.getTransactionReceipt(hash): the receipt, or null (the empty set)
GetTransactionReceipt(hash) == {r \in receipts : r.hash = hash}

IsMined(t) == GetTransactionReceipt(TxHash(t)) # {}

\* the pending transaction a new one with the same account and counter displaces
Displaced(t) == {u \in pool : u.from = t.from /\ u.nonce = t.nonce}

\* Admission with --tx-pool-price-bump=0: a transaction whose counter is not
\* yet consumed is admitted, and displaces the pending one with the same
\* account and counter when its price is not lower; a transaction the node
\* already holds, or has included, is refused as known.
CanAdmit(t) ==
    /\ t.nonce >= txCount[t.from]
    /\ t \notin pool
    /\ ~IsMined(t)
    /\ \A u \in Displaced(t) : t.gasPrice >= u.gasPrice

\* a mutant of PoolAfterAdmit: the pending transaction is kept, the new one dropped
PoolKeepFirst(t) == IF Displaced(t) = {} THEN pool \cup {t} ELSE pool

PoolAfterAdmit(t) == (pool \ Displaced(t)) \cup {t}

\* the effect of an admitted eth_sendRawTransaction
Admit(t) ==
    /\ pool' = PoolAfterAdmit(t)
    /\ accepted' = Append(accepted, t)

\* a submission ends Superseded when its counter value was consumed by another
\* transaction: it has no receipt and never will
Superseded(t) == txCount[t.from] > t.nonce /\ ~IsMined(t)

(***************************************************************************)
(* contracts/Storage.sol                                                   *)
(***************************************************************************)
\* uint256 at the word width of the model: UintBits bits instead of 256
MaxUint256 == 2^UintBits - 1

\* ERC2771Context(trustedForwarder): fixed by the constructor, no setter
trustedForwarder == HubAddress

\* a faulty variant of _msgSender: the appended address is believed from anyone
_msgSenderFromAnyone(caller, suffix) ==
    IF ~IsNone(suffix) THEN Get(suffix) ELSE caller

\* ERC2771Context._msgSender: the address appended to the calldata when the
\* call comes from the trusted forwarder, the direct caller otherwise
_msgSender(caller, suffix) ==
    IF caller = trustedForwarder /\ ~IsNone(suffix) THEN Get(suffix) ELSE caller

\* a faulty variant of onlyOwner: the modifier lets everyone through
onlyOwnerAnyone(msgSender) == TRUE

\* modifier onlyOwner: require(_msgSender() == owner, "Only owner")
onlyOwner(msgSender) == msgSender = owner

\* a faulty variant of CheckedAdd: the sum wraps around the word
WrappingAdd(a, b) == Some((a + b) % (MaxUint256 + 1))

\* + of Solidity 0.8 on uint256: None when the sum leaves the word (Panic 0x11)
CheckedAdd(a, b) == IF a + b > MaxUint256 THEN None ELSE Some(a + b)

\* a faulty variant of ValidNewOwner: the zero address is accepted
ValidNewOwnerAny(newOwner) == TRUE

\* require(newOwner != address(0), "Invalid address")
ValidNewOwner(newOwner) == newOwner # ZeroAddress

\* a faulty variant of ResetValue: reset leaves the number as it is
ResetValueKept == storedNumber

\* reset: storedNumber = 0
ResetValue == 0

\* a faulty variant of StorageCall: store emits its event and writes nothing
StorageCallNoWrite(data, msgSender) ==
    IF Len(data) = 2 /\ data[1] = "store"
    THEN [ok |-> TRUE, error |-> "", storedNumber |-> storedNumber, owner |-> owner,
          logs |-> <<[name |-> "NumberStored", newNumber |-> data[2],
                      storedBy |-> msgSender]>>]
    ELSE [ok |-> FALSE, error |-> "", storedNumber |-> storedNumber, owner |-> owner,
          logs |-> << >>]

\* the outcome of a call of Storage with the given effective sender: a call
\* that reverts changes nothing and emits nothing
StorageCall(data, msgSender) ==
    LET reverted(message) ==
            [ok |-> FALSE, error |-> message, storedNumber |-> storedNumber,
             owner |-> owner, logs |-> << >>]
        stored(v) ==
            [ok |-> TRUE, error |-> "", storedNumber |-> v, owner |-> owner,
             logs |-> <<[name |-> "NumberStored", newNumber |-> v,
                         storedBy |-> msgSender]>>]
    IN  IF Len(data) = 2 /\ data[1] = "store" THEN stored(data[2])
        ELSE IF Len(data) = 1 /\ data[1] = "increment"
        THEN IF ~onlyOwner(msgSender) THEN reverted("Only owner")
             ELSE IF IsNone(CheckedAdd(storedNumber, 1)) THEN reverted("Panic(0x11)")
             ELSE stored(Get(CheckedAdd(storedNumber, 1)))
        ELSE IF Len(data) = 1 /\ data[1] = "reset"
        THEN IF ~onlyOwner(msgSender) THEN reverted("Only owner")
             ELSE stored(ResetValue)
        ELSE IF Len(data) = 2 /\ data[1] = "transferOwnership"
        THEN IF ~onlyOwner(msgSender) THEN reverted("Only owner")
             ELSE IF ~ValidNewOwner(data[2]) THEN reverted("Invalid address")
             ELSE [ok |-> TRUE, error |-> "", storedNumber |-> storedNumber,
                   owner |-> data[2], logs |-> << >>]
        ELSE reverted("")

(***************************************************************************)
(* The verifier behind HUB_ABI (PermissionedMetaTxHub).                    *)
(***************************************************************************)
HubDomain == Domain(EIP712_DOMAIN_NAME, EIP712_DOMAIN_VERSION, ChainId, HubAddress)

\* a mutant of isNonceUsed: the verifier keeps no record of used nonces
isNonceUsedNever(from, space, nonce) == FALSE

\* isNonceUsed(from, space, nonce)
isNonceUsed(from, space, nonce) == <<from, space, nonce>> \in usedNonces

\* isCallerAllowed(caller)
isCallerAllowed(caller) == caller \in allowed

\* the checks of execute(forward, callData, signature) sent by msgSender
HubAccepts(f, payload, sig, msgSender) ==
    /\ Len(f) = ExecuteTupleArity
    /\ Recover(sig, HubDomain, FORWARD_TYPE, f) = f[1]
    /\ now <= f[6]
    /\ ~isNonceUsed(f[1], f[4], f[5])
    /\ keccak256(payload) = f[7]
    /\ f[8] = msgSender
    /\ isCallerAllowed(msgSender)

\* address of the next contract the hub creates
NextDeployedAddress == <<"contract", Cardinality(deployed)>>

\* the outcome of execute: the forward is consumed and its payload run,
\* or the whole transaction reverts and nothing changes
HubExecute(f, payload, sig, msgSender) ==
    LET reverted == [ok |-> FALSE, usedNonces |-> usedNonces, executions |-> executions,
                     deployed |-> deployed, storedNumber |-> storedNumber,
                     owner |-> owner, logs |-> << >>]
    IN  IF ~HubAccepts(f, payload, sig, msgSender) THEN reverted
        ELSE IF f[2] = ZeroAddress
        THEN [ok |-> TRUE,
              usedNonces |-> usedNonces \cup {<<f[1], f[4], f[5]>>},
              executions |-> Append(executions, f),
              deployed |-> deployed \cup {NextDeployedAddress},
              storedNumber |-> storedNumber,
              owner |-> owner,
              logs |-> <<[name |-> "ContractDeployed", signer |-> f[1],
                          deployed |-> NextDeployedAddress, dataHash |-> f[7]]>>]
        ELSE IF f[2] = StorageAddress
                /\ StorageCall(payload, _msgSender(HubAddress, Some(f[1]))).ok
        THEN [ok |-> TRUE,
              usedNonces |-> usedNonces \cup {<<f[1], f[4], f[5]>>},
              executions |-> Append(executions, f),
              deployed |-> deployed,
              storedNumber |->
                  StorageCall(payload, _msgSender(HubAddress, Some(f[1]))).storedNumber,
              owner |-> StorageCall(payload, _msgSender(HubAddress, Some(f[1]))).owner,
              logs |-> StorageCall(payload, _msgSender(HubAddress, Some(f[1]))).logs]
        ELSE reverted

\* the outcome of including transaction t in a block
ExecuteTx(t) ==
    IF t.to = HubAddress /\ Len(t.data) = 4 /\ t.data[1] = "execute"
    THEN HubExecute(t.data[2], t.data[3], t.data[4], t.from)
    ELSE IF t.to = StorageAddress
    THEN [ok |-> StorageCall(t.data, _msgSender(t.from, None)).ok,
          usedNonces |-> usedNonces, executions |-> executions, deployed |-> deployed,
          storedNumber |-> StorageCall(t.data, _msgSender(t.from, None)).storedNumber,
          owner |-> StorageCall(t.data, _msgSender(t.from, None)).owner,
          logs |-> StorageCall(t.data, _msgSender(t.from, None)).logs]
    ELSE [ok |-> FALSE, usedNonces |-> usedNonces, executions |-> executions,
          deployed |-> deployed, storedNumber |-> storedNumber, owner |-> owner,
          logs |-> << >>]

\* provider.estimateGas / provider.call: the simulation succeeds
SimulationSucceeds(from, to, data) ==
    ExecuteTx(Tx(from, to, data, 0, 0, 0, 0)).ok

\* a mutant of CounterAfterMine: every admitted transaction of the counter counts
CounterPerSubmission(t) ==
    txCount[t.from] + Cardinality({i \in DOMAIN accepted :
        accepted[i].from = t.from /\ accepted[i].nonce = t.nonce})

\* the account's counter after t is included
CounterAfterMine(t) == txCount[t.from] + 1

\* A block includes the pending transaction whose counter is the account's next.
Mine(t) ==
    /\ t \in pool
    /\ t.nonce = txCount[t.from]
    /\ LET out == ExecuteTx(t) IN
        /\ receipts' = receipts \cup
              {[hash |-> TxHash(t), status |-> IF out.ok THEN 1 ELSE 0,
                blockNumber |-> blockNumber + 1, logs |-> out.logs,
                from |-> t.from, nonce |-> t.nonce]}
        /\ usedNonces' = out.usedNonces
        /\ executions' = out.executions
        /\ deployed' = out.deployed
        /\ storedNumber' = out.storedNumber
        /\ owner' = out.owner
    /\ pool' = pool \ {t}
    /\ txCount' = [txCount EXCEPT ![t.from] = CounterAfterMine(t)]
    /\ blockNumber' = blockNumber + 1
    /\ UNCHANGED <<accepted, now, allowed, procVars>>

MineBlock == \E t \in pool : Mine(t)

\* the clock step: longer than every default deadline window
TickSec == ExecDefaultDeadlineSec + 1

\* time passes
Tick ==
    /\ now + TickSec <= StartTime + MaxTicks * TickSec
    /\ now' = now + TickSec
    /\ UNCHANGED <<procVars, chainVars, allowed>>



(***************************************************************************)
(* Invocations.                                                            *)
(***************************************************************************)
\* the arguments of an invocation that has not started
NoParams ==
    [op |-> "none", callData |-> EmptyBytes,
     contractBytecode |-> EmptyBytes, constructorTypes |-> << >>,
     constructorArgs |-> << >>,
     from |-> SenderAddress,
     targetAddress |-> StorageAddress, hubAddress |-> HubAddress,
     nonce |-> None, deadline |-> None, deadlineSec |-> None,
     gasLimit |-> None, gasPrice |-> None, txNonce |-> None,
     hasCallerPrepare |-> TRUE, hasCaller |-> TRUE, checkAllowlist |-> TRUE,
     abiHasAllowlist |-> TRUE, signTypes |-> None, encodesEmpty |-> FALSE,
     domainName |-> None, domainVersion |-> None]

\* the parameter defaults domainName = "PermissionedMetaTxHub" and
\* domainVersion = "1" of executeViaMetaTx and prepareForward
DomainNameOf(a) == OrElse(a.domainName, "PermissionedMetaTxHub")
DomainVersionOf(a) == OrElse(a.domainVersion, "1")

\* a faulty variant of SuccessResult: a deployment without an address is a failure
SuccessResultNeedsAddress(t, receipt, fwd, sig, deployedAddress) ==
    [success |-> ~IsNone(deployedAddress), transactionHash |-> TxHash(t),
     receipt |-> receipt, forward |-> fwd, signature |-> sig,
     deployedAddress |-> deployedAddress,
     error |-> IF IsNone(deployedAddress) THEN "Could not find ContractDeployed event"
               ELSE ""]

\* MetaTxExecuteResult / MetaTxDeployResult of the success branch
SuccessResult(t, receipt, fwd, sig, deployedAddress) ==
    [success |-> TRUE, transactionHash |-> TxHash(t), receipt |-> receipt,
     forward |-> fwd, signature |-> sig, deployedAddress |-> deployedAddress,
     error |-> ""]

\* MetaTxExecuteResult / MetaTxDeployResult of the catch block
FailureResult(message) ==
    [success |-> FALSE, transactionHash |-> EmptyBytes, receipt |-> None,
     forward |-> EmptyForward, signature |-> EmptyBytes, deployedAddress |-> None,
     error |-> message]

\* what a caller of executeForward holds when it returns: the transaction response
ResponseResult(t) ==
    [success |-> TRUE, transactionHash |-> TxHash(t), receipt |-> None,
     forward |-> EmptyForward, signature |-> EmptyBytes, deployedAddress |-> None,
     error |-> ""]

\* a mutant of CatchTarget: a failed confirmation sends the transaction again
CatchTargetResend(stage) == IF stage = "wait" THEN "send" ELSE "done"

\* a faulty variant of CatchTarget: a failed signing is attempted again
CatchTargetResign(stage) == IF stage = "signTypedData" THEN "sign" ELSE "done"

\* a faulty variant of CatchTarget: a failed confirmation escapes the catch block
CatchTargetUncaught(stage) == IF stage = "wait" THEN "raised" ELSE "done"

\* where control goes when a stage throws: the error is returned, nothing is retried
CatchTarget(stage) == "done"

\* the request `stage` of invocation p throws `message`
Throw(p, stage, message) ==
    /\ pc' = [pc EXCEPT ![p] = CatchTarget(stage)]
    /\ result' = [result EXCEPT ![p] =
                    IF CatchTarget(stage) = "done" THEN Some(FailureResult(message))
                    ELSE @]
    /\ trail' = [trail EXCEPT ![p] = Append(@, stage)]

\* a synchronous check of invocation p fails before any request is made
Reject(p, message) ==
    /\ pc' = [pc EXCEPT ![p] = "done"]
    /\ result' = [result EXCEPT ![p] = Some(FailureResult(message))]
    /\ UNCHANGED trail

\* the request `stage` of invocation p succeeds and p suspends at `next`
Goto(p, stage, next) ==
    /\ pc' = [pc EXCEPT ![p] = next]
    /\ trail' = [trail EXCEPT ![p] = Append(@, stage)]
    /\ UNCHANGED result

\* the request `stage` of invocation p succeeds and p returns r
Return(p, stage, r) ==
    /\ pc' = [pc EXCEPT ![p] = "done"]
    /\ trail' = [trail EXCEPT ![p] = Append(@, stage)]
    /\ result' = [result EXCEPT ![p] = Some(r)]

\* a faulty variant of ReturnsResponse: executeForward too awaits the receipt
ReturnsResponseNever(op) == FALSE

\* executeForward returns the response of sendTransaction; executeViaMetaTx
\* and deployViaMetaTx go on to tx.wait()
ReturnsResponse(op) == op = "forward"

\* Wallet.sendTransaction hands t to the node: the node refuses it, or admits it
Broadcast(p, t) ==
    \/ /\ ~CanAdmit(t)
       /\ Throw(p, "sendTransaction", "transaction rejected")
       /\ UNCHANGED <<tx, pool, accepted>>
    \/ /\ CanAdmit(t)
       /\ Admit(t)
       /\ tx' = [tx EXCEPT ![p] = Some(t)]
       /\ IF ReturnsResponse(params[p].op)
          THEN Return(p, "sendTransaction", ResponseResult(t))
          ELSE Goto(p, "sendTransaction", "wait")

\* tx.wait() has settled: the transaction is included, or its counter value
\* was consumed by another transaction
WaitSettled(t) == IsMined(t) \/ Superseded(t)

\* hubAbi.parseLog(log): the parsed event, or nothing for a log of another schema
ParseLog(log) == IF log.name = "ContractDeployed" THEN Some(log) ELSE None

\* the `deployed` field of the first log that parses as ContractDeployed, or null
RECURSIVE ExtractDeployed(_, _)
ExtractDeployed(logs, i) ==
    IF i > Len(logs) THEN None
    ELSE IF ~IsNone(ParseLog(logs[i])) THEN Some(Get(ParseLog(logs[i])).deployed)
    ELSE ExtractDeployed(logs, i + 1)

\* const receipt = await tx.wait(); the null check; the success result
AwaitReceipt(p) ==
    LET t == Get(tx[p])
        receipt == GetTransactionReceipt(TxHash(t))
    IN  /\ WaitSettled(t)
        /\ \/ /\ Superseded(t)
              /\ Throw(p, "wait", "transaction was replaced")
           \/ /\ IsMined(t)
              /\ Get(receipt).status = 0
              /\ Throw(p, "wait", "transaction execution reverted")
           \/ /\ IsMined(t)
              /\ Get(receipt).status = 1
              /\ IF IsNone(receipt)
                 THEN Throw(p, "wait", "Transaction receipt is null")
                 ELSE Return(p, "wait",
                        SuccessResult(t, receipt, Get(forward[p]), signature[p],
                            IF params[p].op = "deploy"
                            THEN ExtractDeployed(Get(receipt).logs, 1) ELSE None))

\* generateSecureNonce(): the current second plus a random suffix
generateSecureNonce(random) == now + random

(***************************************************************************)
(* executeViaMetaTx (lib/metaTxExecute.ts)                                 *)
(***************************************************************************)
\* the payloads of the calls: store(1), store(2), and the empty payload
CallDatas == {EncodeStore(1), EncodeStore(2), EmptyBytes}

ExecuteInputs ==
    {[NoParams EXCEPT !.op = "execute", !.callData = c, !.nonce = n, !.txNonce = k] :
        c \in CallDatas,
        n \in {None, Some(StartTime)},
        k \in {None} \cup {Some(i) : i \in 0..MaxTxNonce}}

\* executeViaMetaTx with arguments a: its synchronous validation, up to the
\* first await
ExecuteEntry(p, a) ==
    /\ pc[p] = "idle"
    /\ params' = [params EXCEPT ![p] = a]
    /\ IF a.callData = EmptyBytes THEN Reject(p, "Empty callData")
       ELSE IF a.targetAddress = "" \/ a.targetAddress = ZeroAddress
       THEN Reject(p, "Invalid targetAddress")
       ELSE IF a.hubAddress = "" \/ a.hubAddress = ZeroAddress
       THEN Reject(p, "Invalid hubAddress")
       ELSE /\ pc' = [pc EXCEPT ![p] = "getNetwork"]
            /\ UNCHANGED <<result, trail>>
    /\ UNCHANGED <<forward, signature, prepared, executeData, finalTxNonce, tx,
                   chainVars, allowed, now, gasLimit, estimate>>

\* the call made directly, outside any batch
ExecuteCall(p, a) ==
    /\ ExecuteEntry(p, a)
    /\ UNCHANGED <<batch, lastCall>>

ExecuteBegin(p) == \E a \in ExecuteInputs : ExecuteCall(p, a)

\* the inputs of the runs that mix the entry points
ExecuteInputsBasic ==
    {[NoParams EXCEPT !.op = "execute", !.callData = c, !.txNonce = k] :
        c \in {EncodeStore(1), EmptyBytes}, k \in {None, Some(0)}}

ExecuteBeginBasic(p) == \E a \in ExecuteInputsBasic : ExecuteCall(p, a)

\* const dataHash = ethers.keccak256(callData)
ExecuteDataHash(callData) == keccak256(callData)

\* await provider.getNetwork(), then nonce, deadline, dataHash and the Forward
ExecuteGetNetwork(p) ==
    /\ pc[p] = "getNetwork"
    /\ params[p].op = "execute"
    /\ \/ /\ Throw(p, "getNetwork", "network error")
          /\ UNCHANGED forward
       \/ \E random \in 0..MaxRand :
            LET a == params[p]
                finalNonce == IF IsNone(a.nonce) THEN Some(generateSecureNonce(random))
                              ELSE a.nonce
                finalDeadline == OrElse(a.deadline,
                                        now + OrElse(a.deadlineSec, ExecDefaultDeadlineSec))
                dataHash == ExecuteDataHash(a.callData)
            IN  /\ forward' = [forward EXCEPT ![p] =
                      Some(createForwardRequest(SenderAddress, a.targetAddress, Some(0),
                                                Some(0), finalNonce, finalDeadline,
                                                dataHash, RelayerAddress))]
                /\ Goto(p, "getNetwork", "sign")
    /\ UNCHANGED <<params, signature, prepared, executeData, finalTxNonce, tx,
                   chainVars, allowed, now, gasLimit, estimate, batch, lastCall>>

\* await senderWallet.signTypedData(...), then the encoding of the execute call
ExecuteSign(p) ==
    /\ pc[p] = "sign"
    /\ params[p].op = "execute"
    /\ LET a == params[p]
           f == Get(forward[p])
           domain == Domain(DomainNameOf(a), DomainVersionOf(a), ChainId,
                            a.hubAddress)
           sig == SignTypedData(SenderAddress, domain, FORWARD_TYPE, f)
       IN  \/ /\ Throw(p, "signTypedData", "signing rejected")
              /\ UNCHANGED <<signature, executeData, finalTxNonce>>
           \/ /\ ~CanSign(FORWARD_TYPE, f)
              /\ Throw(p, "signTypedData", "invalid value")
              /\ UNCHANGED <<signature, executeData, finalTxNonce>>
           \/ /\ CanSign(FORWARD_TYPE, f)
              /\ signature' = [signature EXCEPT ![p] = sig]
              /\ executeData' = [executeData EXCEPT ![p] =
                                    EncodeExecute(forwardToTuple(f), a.callData, sig)]
              /\ IF IsNone(a.txNonce)
                 THEN /\ Goto(p, "signTypedData", "getTransactionCount")
                      /\ UNCHANGED finalTxNonce
                 ELSE /\ Goto(p, "signTypedData", "send")
                      /\ finalTxNonce' = [finalTxNonce EXCEPT ![p] = a.txNonce]
    /\ UNCHANGED <<params, forward, prepared, tx, chainVars, allowed, now, gasLimit, estimate, batch, lastCall>>

\* provider.getTransactionCount(relayerWallet.address, "latest")
ExecuteCounterRead(account) == LatestCount(account)

\* const finalTxNonce = txNonce ?? (await provider.getTransactionCount(...))
ExecuteGetTransactionCount(p) ==
    /\ pc[p] = "getTransactionCount"
    /\ params[p].op = "execute"
    /\ \/ /\ Throw(p, "getTransactionCount", "network error")
          /\ UNCHANGED finalTxNonce
       \/ /\ finalTxNonce' = [finalTxNonce EXCEPT ![p] =
                                 Some(ExecuteCounterRead(RelayerAddress))]
          /\ Goto(p, "getTransactionCount", "send")
    /\ UNCHANGED <<params, forward, signature, prepared, executeData, tx,
                   chainVars, allowed, now, gasLimit, estimate, batch, lastCall>>

\* await relayerWallet.sendTransaction({to, data, gasLimit, gasPrice, nonce})
ExecuteSend(p) ==
    /\ pc[p] = "send"
    /\ params[p].op = "execute"
    /\ LET a == params[p]
       IN  Broadcast(p, Tx(RelayerAddress, a.hubAddress, executeData[p],
                           Get(finalTxNonce[p]),
                           OrElse(a.gasLimit, ExecDefaultGasLimit),
                           OrElse(a.gasPrice, ZeroGasPrice), 0))
    /\ UNCHANGED <<params, forward, signature, prepared, executeData, finalTxNonce,
                   txCount, receipts, blockNumber, usedNonces, executions, deployed,
                   storedNumber, owner, allowed, now, gasLimit, estimate, batch, lastCall>>

\* a mutant of ExecuteWait: the result is built without awaiting the confirmation
ExecuteWaitNoAwait(p) ==
    /\ pc[p] = "wait"
    /\ params[p].op = "execute"
    /\ Return(p, "wait",
              SuccessResult(Get(tx[p]), GetTransactionReceipt(TxHash(Get(tx[p]))),
                            Get(forward[p]), signature[p], None))
    /\ UNCHANGED <<params, forward, signature, prepared, executeData, finalTxNonce, tx,
                   chainVars, allowed, now, gasLimit, estimate, batch, lastCall>>

\* const receipt = await tx.wait(), the null check and the returned result
ExecuteWait(p) ==
    /\ pc[p] = "wait"
    /\ params[p].op = "execute"
    /\ AwaitReceipt(p)
    /\ UNCHANGED <<params, forward, signature, prepared, executeData, finalTxNonce, tx,
                   chainVars, allowed, now, gasLimit, estimate, batch, lastCall>>

(***************************************************************************)
(* deployViaMetaTx (lib/metaTxDeploy.ts)                                   *)
(***************************************************************************)
DeployInputs ==
    {[NoParams EXCEPT !.op = "deploy", !.contractBytecode = b,
                      !.constructorTypes = y, !.constructorArgs = g, !.nonce = n] :
        b \in {StorageBytecode, EmptyBytes},
        y \in {<< >>, <<"address", "address">>},
        g \in {<< >>, <<HubAddress, SenderAddress>>},
        n \in {None, Some(StartTime)}}

\* the call with arguments a and its synchronous validation, up to the first await
DeployCall(p, a) ==
    /\ pc[p] = "idle"
    /\ params' = [params EXCEPT ![p] = a]
    /\ IF a.contractBytecode = EmptyBytes THEN Reject(p, "contractBytecode is required")
       ELSE IF a.hubAddress = "" \/ a.hubAddress = ZeroAddress
       THEN Reject(p, "Invalid hubAddress")
       ELSE IF Len(a.constructorTypes) # Len(a.constructorArgs)
       THEN Reject(p, "constructorTypes and constructorArgs length mismatch")
       ELSE /\ pc' = [pc EXCEPT ![p] = "getNetwork"]
            /\ UNCHANGED <<result, trail>>
    /\ UNCHANGED <<forward, signature, prepared, executeData, finalTxNonce, tx,
                   chainVars, allowed, now, gasLimit, estimate, batch, lastCall>>

DeployBegin(p) == \E a \in DeployInputs : DeployCall(p, a)

\* deployBytecode: the bytecode followed by the encoded constructor arguments
deployBytecode(a) ==
    IF Len(a.constructorArgs) > 0
    THEN a.contractBytecode \o AbiEncodeArgs(a.constructorTypes, a.constructorArgs)
    ELSE a.contractBytecode

\* a mutant of DeployDataHash: the digest of the bytecode without the arguments
DeployDataHashBare(a) == keccak256(a.contractBytecode)

\* const dataHash = ethers.keccak256(deployBytecode)
DeployDataHash(a) == keccak256(deployBytecode(a))

\* await provider.getNetwork(), then bytecode, nonce, deadline, dataHash, Forward
DeployGetNetwork(p) ==
    /\ pc[p] = "getNetwork"
    /\ params[p].op = "deploy"
    /\ \/ /\ Throw(p, "getNetwork", "network error")
          /\ UNCHANGED forward
       \/ LET a == params[p]
              finalNonce == a.nonce
              finalDeadline == OrElse(a.deadline,
                                      now + OrElse(a.deadlineSec, DeployDefaultDeadlineSec))
          IN  /\ forward' = [forward EXCEPT ![p] =
                    Some(createForwardRequest(SenderAddress, ZeroAddress, Some(0),
                                              Some(0), finalNonce, finalDeadline,
                                              DeployDataHash(a), RelayerAddress))]
              /\ Goto(p, "getNetwork", "sign")
    /\ UNCHANGED <<params, signature, prepared, executeData, finalTxNonce, tx,
                   chainVars, allowed, now, gasLimit, estimate, batch, lastCall>>

\* await senderWallet.signTypedData(...), then the encoding of the execute call
DeploySign(p) ==
    /\ pc[p] = "sign"
    /\ params[p].op = "deploy"
    /\ LET a == params[p]
           f == Get(forward[p])
           \* { ...EIP712_DOMAIN, chainId, verifyingContract: hubAddress }: the
           \* parameters domainName and domainVersion are not read
           domain == Domain(EIP712_DOMAIN_NAME, EIP712_DOMAIN_VERSION, ChainId,
                            a.hubAddress)
           sig == SignTypedData(SenderAddress, domain, FORWARD_TYPE, f)
       IN  \/ /\ Throw(p, "signTypedData", "signing rejected")
              /\ UNCHANGED <<signature, executeData>>
           \/ /\ ~CanSign(FORWARD_TYPE, f)
              /\ Throw(p, "signTypedData", "invalid value")
              /\ UNCHANGED <<signature, executeData>>
           \/ /\ CanSign(FORWARD_TYPE, f)
              /\ signature' = [signature EXCEPT ![p] = sig]
              /\ executeData' = [executeData EXCEPT ![p] =
                                    EncodeExecute(forwardToTuple(f), deployBytecode(a), sig)]
              /\ Goto(p, "signTypedData", "populate")
    /\ UNCHANGED <<params, forward, prepared, finalTxNonce, tx, chainVars, allowed, now, gasLimit, estimate, batch, lastCall>>

\* relayerWallet.sendTransaction without a nonce: the signer first reads the
\* account's pending counter (populateTransaction)
Populate(p) ==
    /\ pc[p] = "populate"
    /\ \/ /\ Throw(p, "getTransactionCount", "network error")
          /\ UNCHANGED finalTxNonce
       \/ /\ finalTxNonce' = [finalTxNonce EXCEPT ![p] = Some(PendingCount(RelayerAddress))]
          /\ Goto(p, "getTransactionCount", "send")
    /\ UNCHANGED <<params, forward, signature, prepared, executeData, tx,
                   chainVars, allowed, now, gasLimit, estimate, batch, lastCall>>

\* await relayerWallet.sendTransaction({to, data, gasLimit, gasPrice})
DeploySend(p) ==
    /\ pc[p] = "send"
    /\ params[p].op = "deploy"
    /\ LET a == params[p]
       IN  Broadcast(p, Tx(RelayerAddress, a.hubAddress, executeData[p],
                           Get(finalTxNonce[p]),
                           OrElse(a.gasLimit, DeployDefaultGasLimit),
                           OrElse(a.gasPrice, ZeroGasPrice), 0))
    /\ UNCHANGED <<params, forward, signature, prepared, executeData, finalTxNonce,
                   txCount, receipts, blockNumber, usedNonces, executions, deployed,
                   storedNumber, owner, allowed, now, gasLimit, estimate, batch, lastCall>>

\* const receipt = await tx.wait(), the null check, the extraction of the
\* deployed address and the returned result
DeployWait(p) ==
    /\ pc[p] = "wait"
    /\ params[p].op = "deploy"
    /\ AwaitReceipt(p)
    /\ UNCHANGED <<params, forward, signature, prepared, executeData, finalTxNonce, tx,
                   chainVars, allowed, now, gasLimit, estimate, batch, lastCall>>

(***************************************************************************)
(* prepareForward, signForward, executeForward (meta-exec-lib/src/index.ts)*)
(* called in sequence, as scripts/testStorage.ts does.                     *)
(***************************************************************************)
\* the limit scripts/testStorage.ts passes as overrides.gasLimit
ScriptGasLimit == 500000

\* the limit provider.estimateGas answers for a call that simulates without error
EstimatedGas == TestGasLimitLow + TestGasLimitHigh

ForwardInputs ==
    {[NoParams EXCEPT !.op = "forward", !.callData = c, !.nonce = Some(StartTime),
                      !.hasCaller = h, !.checkAllowlist = k, !.abiHasAllowlist = b,
                      !.gasLimit = g, !.encodesEmpty = e] :
        c \in {EncodeStore(1), EmptyBytes},
        h \in BOOLEAN, k \in BOOLEAN, b \in BOOLEAN,
        g \in {None, Some(ScriptGasLimit)},
        e \in BOOLEAN}

\* a faulty variant of NonceMissing: a nonce of 0 counts as missing
NonceFalsy(nonce) == IsNone(nonce) \/ nonce = Some(0)

\* nonce === undefined || nonce === null
NonceMissing(nonce) == IsNone(nonce)

\* prepareForward is called with arguments a: the checks before its first await
PrepareForwardCall(p, a) ==
    /\ pc[p] = "idle"
    /\ params' = [params EXCEPT ![p] = a]
    /\ IF NonceMissing(a.nonce) THEN Reject(p, "The parameter 'nonce' is required.")
       ELSE IF a.callData = EmptyBytes THEN Reject(p, "Empty callData.")
       ELSE /\ pc' = [pc EXCEPT ![p] = "getNetwork"]
            /\ UNCHANGED <<result, trail>>
    /\ UNCHANGED <<forward, signature, prepared, executeData, finalTxNonce, tx,
                   chainVars, allowed, now, gasLimit, estimate, batch, lastCall>>

ForwardBegin(p) == \E a \in ForwardInputs : PrepareForwardCall(p, a)

\* the inputs of the runs that mix the entry points
ForwardInputsBasic ==
    {[NoParams EXCEPT !.op = "forward", !.callData = c, !.nonce = n, !.gasLimit = g] :
        c \in {EncodeStore(1), EmptyBytes}, n \in {None, Some(StartTime)},
        g \in {None, Some(ScriptGasLimit)}}

ForwardBeginBasic(p) == \E a \in ForwardInputsBasic : PrepareForwardCall(p, a)

\* Number(deadlineSec || 600)
PrepareDeadlineSec(deadlineSec) ==
    IF IsNone(deadlineSec) \/ deadlineSec = Some(0)
    THEN PrepareDefaultDeadlineSec ELSE Get(deadlineSec)

\* what prepareForward writes to the console besides its log lines: it never
\* compares the deadline with the clock, and warns of nothing
PrepareWarnings(finalDeadline, clock) == << >>

\* the rest of prepareForward: await provider.getNetwork(), then domain, types,
\* message and fTuple
PrepareForward(p) ==
    /\ pc[p] = "getNetwork"
    /\ params[p].op = "forward"
    /\ \/ /\ Throw(p, "getNetwork", "network error")
          /\ UNCHANGED prepared
       \/ /\ ~IsAddress(params[p].hubAddress)
          /\ Throw(p, "getNetwork", "invalid address")
          /\ UNCHANGED prepared
       \/ LET a == params[p]
              dataHash == keccak256(a.callData)
              nonceBig == a.nonce
              finalDeadline == IF ~IsNone(a.deadline) THEN Get(a.deadline)
                               ELSE now + PrepareDeadlineSec(a.deadlineSec)
              domain == Domain(DomainNameOf(a), DomainVersionOf(a), ChainId,
                               a.hubAddress)
              baseMessage == [from |-> a.from, to |-> a.targetAddress,
                              value |-> 0, space |-> 0, nonce |-> nonceBig,
                              deadline |-> finalDeadline, dataHash |-> dataHash]
              withCaller == [from |-> a.from, to |-> a.targetAddress,
                             value |-> 0, space |-> 0, nonce |-> nonceBig,
                             deadline |-> finalDeadline, dataHash |-> dataHash,
                             caller |-> RelayerAddress]
              baseTuple == <<a.from, a.targetAddress, 0, 0, nonceBig,
                             finalDeadline, dataHash>>
          IN  /\ IsAddress(a.hubAddress)
              /\ prepared' = [prepared EXCEPT ![p] = Some(
                    [domain |-> domain,
                     types |-> IF a.hasCallerPrepare THEN FORWARD_TYPE
                               ELSE FORWARD_TYPE_NO_CALLER,
                     message |-> IF a.hasCallerPrepare THEN withCaller ELSE baseMessage,
                     fTuple |-> IF a.hasCallerPrepare
                                THEN Append(baseTuple, RelayerAddress) ELSE baseTuple,
                     callData |-> a.callData,
                     dataHash |-> dataHash,
                     warnings |-> PrepareWarnings(finalDeadline, now)])]
              /\ Goto(p, "getNetwork", "signForward")
    /\ UNCHANGED <<params, forward, signature, executeData, finalTxNonce, tx,
                   chainVars, allowed, now, gasLimit, estimate, batch, lastCall>>

\* a faulty variant of UserWalletSign: the signature varies with the time of signing
UserWalletSignSalted(domain, types, message) ==
    <<SenderAddress, domain, types, TypedValues(types, message), now>>

\* userWallet.signTypedData(domain, types, message)
UserWalletSign(domain, types, message) ==
    SignTypedData(SenderAddress, domain, types, message)

\* signForward: await userWallet.signTypedData(domain, types, message), with
\* the types the caller passes: those prepareForward returned, or others
SignForward(p) ==
    /\ pc[p] = "signForward"
    /\ LET r == Get(prepared[p])
           types == OrElse(params[p].signTypes, r.types)
       IN  \/ /\ Throw(p, "signTypedData", "signing rejected")
              /\ UNCHANGED signature
           \/ /\ ~CanSign(types, r.message)
              /\ Throw(p, "signTypedData", "invalid value")
              /\ UNCHANGED signature
           \/ /\ CanSign(types, r.message)
              /\ signature' = [signature EXCEPT ![p] =
                    UserWalletSign(r.domain, types, r.message)]
              /\ Goto(p, "signTypedData", "executeForward")
    /\ UNCHANGED <<params, forward, prepared, executeData, finalTxNonce, tx,
                   chainVars, allowed, now, gasLimit, estimate, batch, lastCall>>

\* the await executeForward suspends at once the allowlist question is settled
AfterAllowlist(a) ==
    IF IsNone(a.gasLimit) THEN "estimateGas"
    ELSE IF IsNone(a.txNonce) THEN "populate" ELSE "send"

\* checkAllowlist && hasCaller && meta.interface.getFunction("isCallerAllowed")
NeedsAllowlistCheck(a) == a.checkAllowlist /\ a.hasCaller /\ a.abiHasAllowlist

\* a faulty variant of IsEmptyExecData: the check is left out
NeverEmptyExecData(execData) == FALSE

\* !execData || execData === "0x"
IsEmptyExecData(execData) == execData = EmptyBytes

\* executeForward up to its first network request: the encoding of the execute
\* call and the empty-payload check
ExecuteForwardCall(p) ==
    /\ pc[p] = "executeForward"
    /\ LET a == params[p]
           r == Get(prepared[p])
           execData == IF CanEncodeExecute(r.fTuple) /\ ~a.encodesEmpty
                       THEN EncodeExecute(r.fTuple, r.callData, signature[p])
                       ELSE EmptyBytes
       IN  IF ~CanEncodeExecute(r.fTuple)
           THEN /\ Reject(p, "invalid tuple")
                /\ UNCHANGED <<executeData, finalTxNonce, gasLimit>>
           ELSE IF IsEmptyExecData(execData)
           THEN /\ Reject(p, "Empty execData.")
                /\ UNCHANGED <<executeData, finalTxNonce, gasLimit>>
           ELSE /\ executeData' = [executeData EXCEPT ![p] = execData]
                /\ finalTxNonce' = [finalTxNonce EXCEPT ![p] = a.txNonce]
                /\ gasLimit' = [gasLimit EXCEPT ![p] = a.gasLimit]
                /\ pc' = [pc EXCEPT ![p] =
                            IF NeedsAllowlistCheck(a) THEN "allowlist"
                            ELSE AfterAllowlist(a)]
                /\ UNCHANGED <<result, trail>>
    /\ UNCHANGED <<params, forward, signature, prepared, tx, chainVars, allowed, now,
                   estimate, batch, lastCall>>

\* a mutant of CallerRefused: the answer of the hub is ignored
CallerNeverRefused(isAllowed) == FALSE

\* if (!allowed) throw
CallerRefused(isAllowed) == ~isAllowed

\* a faulty variant of AllowlistArgument: the field before the last is taken
AllowlistArgumentDataHash(fTuple) == fTuple[7]

\* const caller = fTuple[fTuple.length - 1]
AllowlistArgument(fTuple) == fTuple[Len(fTuple)]

\* const allowed = await meta.isCallerAllowed(caller); if (!allowed) throw
ForwardAllowlist(p) ==
    /\ pc[p] = "allowlist"
    /\ LET a == params[p]
           fTuple == Get(prepared[p]).fTuple
           caller == AllowlistArgument(fTuple)
       IN  \/ Throw(p, "isCallerAllowed", "network error")
           \/ /\ CallerRefused(isCallerAllowed(caller))
              /\ Throw(p, "isCallerAllowed", "Caller not allowed")
           \/ /\ ~CallerRefused(isCallerAllowed(caller))
              /\ Goto(p, "isCallerAllowed", AfterAllowlist(a))
    /\ UNCHANGED <<params, forward, signature, prepared, executeData, finalTxNonce, tx,
                   chainVars, allowed, now, gasLimit, estimate, batch, lastCall>>

\* a faulty variant of EstimateThrows: a failed simulation is not reported
EstimateNeverThrows(ok) == FALSE

\* provider.estimateGas rejects when the simulated call reverts
EstimateThrows(ok) == ~ok

\* overrides.gasLimit ?? await provider.estimateGas({from, to, data, value})
ForwardEstimateGas(p) ==
    /\ pc[p] = "estimateGas"
    /\ LET a == params[p]
           request == [from |-> RelayerAddress, to |-> a.hubAddress,
                       data |-> executeData[p], value |-> 0,
                       ok |-> SimulationSucceeds(RelayerAddress, a.hubAddress,
                                                 executeData[p])]
       IN  /\ estimate' = [estimate EXCEPT ![p] = Some(request)]
           /\ \/ /\ EstimateThrows(request.ok)
                 /\ Throw(p, "estimateGas", "execution reverted")
                 /\ UNCHANGED gasLimit
              \/ /\ ~EstimateThrows(request.ok)
                 /\ gasLimit' = [gasLimit EXCEPT ![p] = Some(EstimatedGas)]
                 /\ Goto(p, "estimateGas",
                         IF IsNone(a.txNonce) THEN "populate" ELSE "send")
    /\ UNCHANGED <<params, forward, signature, prepared, executeData, finalTxNonce, tx,
                   chainVars, allowed, now, batch, lastCall>>

\* const tx = await relayer.sendTransaction({...}); return tx
ForwardSend(p) ==
    /\ pc[p] = "send"
    /\ params[p].op = "forward"
    /\ LET a == params[p]
       IN  Broadcast(p, Tx(RelayerAddress, a.hubAddress, executeData[p],
                           Get(finalTxNonce[p]), Get(gasLimit[p]),
                           OrElse(a.gasPrice, ZeroGasPrice), 0))
    /\ UNCHANGED <<params, forward, signature, prepared, executeData, finalTxNonce,
                   txCount, receipts, blockNumber, usedNonces, executions, deployed,
                   storedNumber, owner, allowed, now, gasLimit, estimate, batch, lastCall>>

(***************************************************************************)
(* test/TransactionReplacement.test.ts: user1 sends store transactions to  *)
(* the Storage contract directly, with explicit nonce, gas price 0 and a   *)
(* gas limit, and blocks are mined on request (mining.auto is false).      *)
(***************************************************************************)
TestGasLimits == {TestGasLimitLow, TestGasLimitHigh}

\* storage.connect(user1).store(v, {nonce: n, gasPrice: 0, gasLimit: g})
StoreTx(v, n, g) == Tx(User1Address, StorageAddress, EncodeStore(v), n, g, ZeroGasPrice, 0)

\* one store call of a test: with the counter value of the pending transaction
\* (a replacement) or with the next free one (a sequential transaction)
SubmitStore ==
    /\ Len(accepted) < MaxSubmissions
    /\ \E v \in 1..MaxValue, g \in TestGasLimits,
          n \in {LatestCount(User1Address), PendingCount(User1Address)} :
        /\ CanAdmit(StoreTx(v, n, g))
        /\ Admit(StoreTx(v, n, g))
    /\ UNCHANGED <<procVars, txCount, receipts, blockNumber, now, hubVars, storedNumber, owner>>

(***************************************************************************)
(* Specifications.                                                         *)
(***************************************************************************)
Init ==
    /\ pc = [p \in Procs |-> "idle"]
    /\ params = [p \in Procs |-> NoParams]
    /\ forward = [p \in Procs |-> None]
    /\ signature = [p \in Procs |-> EmptyBytes]
    /\ prepared = [p \in Procs |-> None]
    /\ executeData = [p \in Procs |-> EmptyBytes]
    /\ finalTxNonce = [p \in Procs |-> None]
    /\ gasLimit = [p \in Procs |-> None]
    /\ estimate = [p \in Procs |-> None]
    /\ tx = [p \in Procs |-> None]
    /\ result = [p \in Procs |-> None]
    /\ trail = [p \in Procs |-> << >>]
    /\ batch = [p \in Procs |-> None]
    /\ txCount = [a \in Accounts |-> 0]
    /\ pool = {}
    /\ accepted = << >>
    /\ receipts = {}
    /\ blockNumber = 0
    /\ now = StartTime
    /\ usedNonces = {}
    /\ allowed \in {{}, {RelayerAddress}}
    /\ executions = << >>
    /\ deployed = {}
    /\ storedNumber = 0
    /\ owner = SenderAddress
    /\ lastCall = None

\* the steps every relay pipeline shares
Step(p) ==
    \/ ExecuteGetNetwork(p)
    \/ ExecuteSign(p)
    \/ ExecuteGetTransactionCount(p)
    \/ ExecuteSend(p)
    \/ ExecuteWait(p)
    \/ DeployGetNetwork(p)
    \/ DeploySign(p)
    \/ Populate(p)
    \/ DeploySend(p)
    \/ DeployWait(p)
    \/ PrepareForward(p)
    \/ SignForward(p)
    \/ ExecuteForwardCall(p)
    \/ ForwardAllowlist(p)
    \/ ForwardEstimateGas(p)
    \/ ForwardSend(p)

\* concurrent invocations of the three library entry points
Next ==
    \/ \E p \in Procs : ExecuteBeginBasic(p)
    \/ \E p \in Procs : DeployBegin(p)
    \/ \E p \in Procs : ForwardBeginBasic(p)
    \/ \E p \in Procs : Step(p)
    \/ MineBlock
    \/ Tick

Spec == Init /\ [][Next]_vars

\* concurrent invocations of executeViaMetaTx
NextRelay ==
    \/ \E p \in Procs : ExecuteBegin(p)
    \/ \E p \in Procs : ExecuteGetNetwork(p)
    \/ \E p \in Procs : ExecuteSign(p)
    \/ \E p \in Procs : ExecuteGetTransactionCount(p)
    \/ \E p \in Procs : ExecuteSend(p)
    \/ \E p \in Procs : ExecuteWait(p)
    \/ MineBlock
    \/ Tick

SpecRelay == Init /\ [][NextRelay]_vars

\* concurrent runs of prepareForward, signForward, executeForward
NextForward ==
    \/ \E p \in Procs : ForwardBegin(p)
    \/ \E p \in Procs : PrepareForward(p)
    \/ \E p \in Procs : SignForward(p)
    \/ \E p \in Procs : ExecuteForwardCall(p)
    \/ \E p \in Procs : ForwardAllowlist(p)
    \/ \E p \in Procs : ForwardEstimateGas(p)
    \/ \E p \in Procs : Populate(p)
    \/ \E p \in Procs : ForwardSend(p)
    \/ MineBlock

SpecForward == Init /\ [][NextForward]_vars

\* the replacement tests
NextPool ==
    \/ SubmitStore
    \/ MineBlock

SpecPool == Init /\ [][NextPool]_vars

(***************************************************************************)
(* prepareForward and signForward over the range of their arguments.       *)
(***************************************************************************)
\* an explicit deadline a caller passes
GivenDeadline == StartTime + PrepareDefaultDeadlineSec + SuppliedDeadlineSec

\* the (deadline, deadlineSec) pairs a caller passes
DeadlineArgs ==
    {<<None, None>>, <<None, Some(0)>>, <<None, Some(SuppliedDeadlineSec)>>,
     <<Some(GivenDeadline), None>>, <<Some(GivenDeadline), Some(SuppliedDeadlineSec)>>}

\* the (from, to) pairs a caller passes
PartyArgs ==
    {<<SenderAddress, StorageAddress>>, <<BadAddress, StorageAddress>>,
     <<SenderAddress, BadAddress>>}

PrepareInputs ==
    {[NoParams EXCEPT !.op = "forward", !.callData = c, !.nonce = n,
                      !.from = w[1], !.targetAddress = w[2],
                      !.deadline = d[1], !.deadlineSec = d[2]] :
        c \in {EncodeStore(1), EmptyBytes},
        n \in {None, Some(0), Some(StartTime)},
        w \in PartyArgs,
        d \in DeadlineArgs}

PrepareBegin(p) == \E a \in PrepareInputs : PrepareForwardCall(p, a)

\* concurrent runs of prepareForward and signForward while time passes
NextPrepare ==
    \/ \E p \in Procs : PrepareBegin(p)
    \/ \E p \in Procs : PrepareForward(p)
    \/ \E p \in Procs : SignForward(p)
    \/ Tick

SpecPrepare == Init /\ [][NextPrepare]_vars

(***************************************************************************)
(* The two schema variants, relayed to the hub.                            *)
(***************************************************************************)
\* prepareForward with or without caller, signForward with the returned types
\* or with those of either variant, executeForward with a supplied gas limit
VariantInputs ==
    {[NoParams EXCEPT !.op = "forward", !.callData = EncodeStore(1), !.nonce = n,
                      !.hasCallerPrepare = h, !.signTypes = y,
                      !.gasLimit = Some(ScriptGasLimit)] :
        n \in {Some(0), Some(StartTime)},
        h \in BOOLEAN,
        y \in {None, Some(FORWARD_TYPE), Some(FORWARD_TYPE_NO_CALLER)}}

VariantBegin(p) == \E a \in VariantInputs : PrepareForwardCall(p, a)

NextVariant ==
    \/ \E p \in Procs : VariantBegin(p)
    \/ \E p \in Procs : PrepareForward(p)
    \/ \E p \in Procs : SignForward(p)
    \/ \E p \in Procs : ExecuteForwardCall(p)
    \/ \E p \in Procs : ForwardAllowlist(p)
    \/ \E p \in Procs : Populate(p)
    \/ \E p \in Procs : ForwardSend(p)
    \/ MineBlock

SpecVariant == Init /\ [][NextVariant]_vars

(***************************************************************************)
(* The extraction of the deployed address from a receipt's logs:           *)
(* getDeployedAddress (meta-exec-lib/src/index.ts), the loop of            *)
(* deployViaMetaTx and the loop of scripts/deployStorage.ts.               *)
(***************************************************************************)
\* longest log list of a receipt
MaxLogs == 3

\* the events of HUB_ABI, and of an ABI that also knows the events of Storage
HubEvents == {"ContractDeployed"}
WideEvents == {"ContractDeployed", "NumberStored"}

\* the log entries a receipt may hold: ContractDeployed of either of two
\* contracts, an event of another contract, and an entry that does not decode
DeployedLog(n) ==
    [name |-> "ContractDeployed", signer |-> SenderAddress,
     deployed |-> <<"contract", n>>, dataHash |-> keccak256(StorageBytecode)]
OtherLog == [name |-> "NumberStored", newNumber |-> 1, storedBy |-> SenderAddress]
UndecodableLog == [name |-> "Undecodable"]
LogEntries == {DeployedLog(0), DeployedLog(1), OtherLog, UndecodableLog}

LogLists == UNION {[1..n -> LogEntries] : n \in 0..MaxLogs}

\* Interface.parseLog throws on an entry whose topics and data do not decode
ParseLogThrows(log) == log.name = "Undecodable"

\* Interface.parseLog of an interface with the given events: the event, or
\* null for an entry of an event the interface does not have
InterfaceParseLog(events, log) == IF log.name \in events THEN Some(log) ELSE None

\* try { return hubInterface.parseLog(logItem) } catch { return null }
TryParseLog(events, log) ==
    IF ParseLogThrows(log) THEN None ELSE InterfaceParseLog(events, log)

\* a faulty variant of getDeployedAddress: the last matching entry is taken
getDeployedAddressLast(logs, events) ==
    LET parsed == [i \in 1..Len(logs) |-> TryParseLog(events, logs[i])]
        hits == {i \in 1..Len(logs) :
                    ~IsNone(parsed[i]) /\ Get(parsed[i]).name = "ContractDeployed"}
    IN  IF hits = {} THEN None
        ELSE Some(Get(parsed[CHOOSE i \in hits : \A j \in hits : j <= i]).deployed)

\* getDeployedAddress: receipt.logs.map(parse or null).find(event && event.name
\* === "ContractDeployed"), then its args.deployed, or null
getDeployedAddress(logs, events) ==
    LET parsed == [i \in 1..Len(logs) |-> TryParseLog(events, logs[i])]
        hits == {i \in 1..Len(logs) :
                    ~IsNone(parsed[i]) /\ Get(parsed[i]).name = "ContractDeployed"}
    IN  IF hits = {} THEN None
        ELSE Some(Get(parsed[CHOOSE i \in hits : \A j \in hits : i <= j]).deployed)

\* the loop of scripts/deployStorage.ts: its interface has the one event
RECURSIVE ScriptExtractDeployed(_, _)
ScriptExtractDeployed(logs, i) ==
    IF i > Len(logs) THEN None
    ELSE IF ParseLogThrows(logs[i]) THEN ScriptExtractDeployed(logs, i + 1)
    ELSE IF /\ ~IsNone(InterfaceParseLog(HubEvents, logs[i]))
            /\ Get(InterfaceParseLog(HubEvents, logs[i])).name = "ContractDeployed"
    THEN Some(Get(InterfaceParseLog(HubEvents, logs[i])).deployed)
    ELSE ScriptExtractDeployed(logs, i + 1)

\* what getDeployedAddress and the script return, as a result record
ExtractionResult(receipt, address) ==
    [success |-> TRUE, transactionHash |-> receipt.hash, receipt |-> Some(receipt),
     forward |-> EmptyForward, signature |-> EmptyBytes, deployedAddress |-> address,
     error |-> ""]

\* getDeployedAddress(receipt, abi) on a receipt of the chain
GetDeployedAddressCall(p) ==
    /\ pc[p] = "idle"
    /\ \E r \in receipts, events \in {HubEvents, WideEvents} :
          /\ params' = [params EXCEPT ![p] =
                          [NoParams EXCEPT !.op = "getDeployedAddress"]]
          /\ pc' = [pc EXCEPT ![p] = "done"]
          /\ result' = [result EXCEPT ![p] =
                Some(ExtractionResult(r, getDeployedAddress(r.logs, events)))]
    /\ UNCHANGED <<forward, signature, prepared, executeData, finalTxNonce, tx, trail,
                   chainVars, allowed, now, gasLimit, estimate, batch, lastCall>>

\* the extraction of scripts/deployStorage.ts on a receipt of the chain
ScriptExtract(p) ==
    /\ pc[p] = "idle"
    /\ \E r \in receipts :
          /\ params' = [params EXCEPT ![p] = [NoParams EXCEPT !.op = "script"]]
          /\ pc' = [pc EXCEPT ![p] = "done"]
          /\ result' = [result EXCEPT ![p] =
                Some(ExtractionResult(r, ScriptExtractDeployed(r.logs, 1)))]
    /\ UNCHANGED <<forward, signature, prepared, executeData, finalTxNonce, tx, trail,
                   chainVars, allowed, now, gasLimit, estimate, batch, lastCall>>

\* one deployment of Storage; the other invocation reads its receipt
LogsDeployInput ==
    [NoParams EXCEPT !.op = "deploy", !.contractBytecode = StorageBytecode,
                     !.nonce = Some(StartTime)]

LogsDeployBegin(p) ==
    /\ \A q \in Procs : params[q].op # "deploy"
    /\ DeployCall(p, LogsDeployInput)

\* a block includes t; the hub and the constructor of the deployed contract
\* may emit any list of log entries when the call succeeds
MineWithLogs(t) ==
    /\ t \in pool
    /\ t.nonce = txCount[t.from]
    /\ LET out == ExecuteTx(t) IN
        /\ \E logs \in LogLists :
              receipts' = receipts \cup
                 {[hash |-> TxHash(t), status |-> IF out.ok THEN 1 ELSE 0,
                   blockNumber |-> blockNumber + 1,
                   logs |-> IF out.ok THEN logs ELSE << >>,
                   from |-> t.from, nonce |-> t.nonce]}
        /\ usedNonces' = out.usedNonces
        /\ executions' = out.executions
        /\ deployed' = out.deployed
        /\ storedNumber' = out.storedNumber
        /\ owner' = out.owner
    /\ pool' = pool \ {t}
    /\ txCount' = [txCount EXCEPT ![t.from] = CounterAfterMine(t)]
    /\ blockNumber' = blockNumber + 1
    /\ UNCHANGED <<accepted, now, allowed, procVars>>

MineBlockWithLogs == \E t \in pool : MineWithLogs(t)

NextLogs ==
    \/ \E p \in Procs : LogsDeployBegin(p)
    \/ \E p \in Procs : DeployGetNetwork(p)
    \/ \E p \in Procs : DeploySign(p)
    \/ \E p \in Procs : Populate(p)
    \/ \E p \in Procs : DeploySend(p)
    \/ \E p \in Procs : DeployWait(p)
    \/ \E p \in Procs : GetDeployedAddressCall(p)
    \/ \E p \in Procs : ScriptExtract(p)
    \/ MineBlockWithLogs

SpecLogs == Init /\ [][NextLogs]_vars

(***************************************************************************)
(* scripts/testTransactionReplacement.ts, TEST 3: the receipt of a          *)
(* transaction is asked for by its hash.                                   *)
(***************************************************************************)
\* what provider.getTransactionReceipt(hash) answered, as a result record
ReceiptAnswer(hash, receipt) ==
    [success |-> TRUE, transactionHash |-> hash, receipt |-> receipt,
     forward |-> EmptyForward, signature |-> EmptyBytes, deployedAddress |-> None,
     error |-> ""]

\* const tx1Receipt = await provider.getTransactionReceipt(tx1Hash), the one
\* query of the script, made once the transactions of the test have settled
ReceiptQuery(p) ==
    /\ pc[p] = "idle"
    /\ \A q \in Procs : params[q].op # "receiptQuery"
    /\ \E i \in DOMAIN accepted :
          LET t == accepted[i] IN
          /\ WaitSettled(t)
          /\ params' = [params EXCEPT ![p] = [NoParams EXCEPT !.op = "receiptQuery"]]
          /\ tx' = [tx EXCEPT ![p] = Some(t)]
          /\ Return(p, "getTransactionReceipt",
                    ReceiptAnswer(TxHash(t), GetTransactionReceipt(TxHash(t))))
    /\ UNCHANGED <<forward, signature, prepared, executeData, finalTxNonce,
                   chainVars, allowed, now, gasLimit, estimate, batch, lastCall>>

\* the replacement tests followed by receipt queries
NextReplace ==
    \/ SubmitStore
    \/ MineBlock
    \/ \E p \in Procs : ReceiptQuery(p)

SpecReplace == Init /\ [][NextReplace]_vars

(***************************************************************************)
(* A Forward whose deadline has passed when it is built, relayed to the hub.*)
(***************************************************************************)
\* an explicit deadline before the clock, and one after it
PastDeadline == StartTime - 1

DeadlineInputs ==
    {[NoParams EXCEPT !.op = "forward", !.callData = EncodeStore(1),
                      !.nonce = n, !.deadline = d, !.gasLimit = g] :
        n \in {Some(0), Some(StartTime)},
        d \in {Some(PastDeadline), Some(GivenDeadline)},
        g \in {None, Some(ScriptGasLimit)}}

DeadlineBegin(p) == \E a \in DeadlineInputs : PrepareForwardCall(p, a)

NextDeadline ==
    \/ \E p \in Procs : DeadlineBegin(p)
    \/ \E p \in Procs : PrepareForward(p)
    \/ \E p \in Procs : SignForward(p)
    \/ \E p \in Procs : ExecuteForwardCall(p)
    \/ \E p \in Procs : ForwardAllowlist(p)
    \/ \E p \in Procs : ForwardEstimateGas(p)
    \/ \E p \in Procs : Populate(p)
    \/ \E p \in Procs : ForwardSend(p)
    \/ MineBlock

SpecDeadline == Init /\ [][NextDeadline]_vars

(***************************************************************************)
(* executeContractViaMetaTx and executeBatchViaMetaTx (lib/metaTxExecute.ts)*)
(***************************************************************************)
\* most calls in one batch
MaxCalls == 2

\* the calls of a batch: store(1), store(2), and a call of a function the
\* contract's interface does not have
BatchCallKinds ==
    {[functionName |-> "store", args |-> <<1>>],
     [functionName |-> "store", args |-> <<2>>],
     [functionName |-> "stor", args |-> <<1>>]}

BatchCallLists == UNION {[1..n -> BatchCallKinds] : n \in 0..MaxCalls}

\* contract.interface.encodeFunctionData(functionName, args) throws for a
\* function the interface does not have, or arguments that do not fit it
EncodeCallThrows(call) == ~(call.functionName = "store" /\ Len(call.args) = 1)

\* contract.interface.encodeFunctionData(functionName, args)
EncodeCall(call) == EncodeStore(call.args[1])

\* the state of a batch that has just been called
NewBatch(calls) ==
    [calls |-> calls, started |-> << >>, results |-> << >>, progress |-> << >>,
     status |-> IF Len(calls) = 0 THEN "returned" ELSE "running"]

\* executeBatchViaMetaTx is called, once: results = [], and the loop is entered
BatchStart(p) ==
    /\ pc[p] = "idle"
    /\ \A q \in Procs : IsNone(batch[q])
    /\ \E calls \in BatchCallLists :
          batch' = [batch EXCEPT ![p] = Some(NewBatch(calls))]
    /\ UNCHANGED <<pc, params, forward, signature, prepared, executeData, finalTxNonce,
                   tx, result, trail, chainVars, allowed, now, gasLimit, estimate, lastCall>>

\* one iteration of the loop up to the first await of executeViaMetaTx:
\* executeContractViaMetaTx encodes the call, outside any try block, and calls
\* executeViaMetaTx with the rest of the parameters of the batch
BatchCall(p) ==
    /\ pc[p] = "idle"
    /\ ~IsNone(batch[p])
    /\ LET b == Get(batch[p])
           i == Len(b.results) + 1
       IN  /\ b.status = "running"
           /\ i <= Len(b.calls)
           /\ IF EncodeCallThrows(b.calls[i])
              THEN /\ batch' = [batch EXCEPT ![p] =
                                  Some([b EXCEPT !.started = Append(@, i),
                                                 !.status = "threw"])]
                   /\ UNCHANGED <<pc, params, result, trail, forward, signature,
                                  prepared, executeData, finalTxNonce, tx, chainVars,
                                  allowed, now, gasLimit, estimate, lastCall>>
              ELSE /\ batch' = [batch EXCEPT ![p] =
                                  Some([b EXCEPT !.started = Append(@, i)])]
                   /\ ExecuteEntry(p, [NoParams EXCEPT !.op = "execute",
                                         !.callData = EncodeCall(b.calls[i])])
                   /\ UNCHANGED lastCall

\* the rest of the iteration, once executeViaMetaTx has returned its result:
\* results.push(result), onProgress(i, calls.length, result), and the loop goes
\* on, or ends and the results are returned
BatchCollect(p) ==
    /\ pc[p] = "done"
    /\ ~IsNone(batch[p])
    /\ LET b == Get(batch[p])
           r == Get(result[p])
           i == Len(b.results)
       IN  /\ b.status = "running"
           /\ batch' = [batch EXCEPT ![p] =
                 Some([b EXCEPT !.results = Append(@, r),
                                !.progress = Append(@, <<i, Len(b.calls), r>>),
                                !.status = IF i + 1 = Len(b.calls) THEN "returned"
                                           ELSE "running"])]
    /\ pc' = [pc EXCEPT ![p] = "idle"]
    /\ params' = [params EXCEPT ![p] = NoParams]
    /\ forward' = [forward EXCEPT ![p] = None]
    /\ signature' = [signature EXCEPT ![p] = EmptyBytes]
    /\ executeData' = [executeData EXCEPT ![p] = EmptyBytes]
    /\ finalTxNonce' = [finalTxNonce EXCEPT ![p] = None]
    /\ tx' = [tx EXCEPT ![p] = None]
    /\ result' = [result EXCEPT ![p] = None]
    /\ trail' = [trail EXCEPT ![p] = << >>]
    /\ UNCHANGED <<prepared, chainVars, allowed, now, gasLimit, estimate, lastCall>>

NextBatch ==
    \/ \E p \in Procs : BatchStart(p)
    \/ \E p \in Procs : BatchCall(p)
    \/ \E p \in Procs : ExecuteGetNetwork(p)
    \/ \E p \in Procs : ExecuteSign(p)
    \/ \E p \in Procs : ExecuteGetTransactionCount(p)
    \/ \E p \in Procs : ExecuteSend(p)
    \/ \E p \in Procs : ExecuteWait(p)
    \/ \E p \in Procs : BatchCollect(p)
    \/ MineBlock

SpecBatch == Init /\ [][NextBatch]_vars

(***************************************************************************)
(* Calls of Storage (contracts/Storage.sol) by the accounts of the tests   *)
(* and by the trusted forwarder.                                           *)
(***************************************************************************)
\* who calls: the owner of the fixture, another user, the relayer, the forwarder
StorageCallers == {SenderAddress, User1Address, RelayerAddress, trustedForwarder}

\* the address a caller may append to the calldata
StorageSuffixes == {None, Some(SenderAddress), Some(User1Address), Some(RelayerAddress)}

\* arguments of store: a small number and ethers.MaxUint256
StoreValues == {1, MaxUint256}

StorageCallDatas ==
    {EncodeStore(v) : v \in StoreValues}
        \cup {EncodeIncrement, EncodeReset}
        \cup {EncodeTransferOwnership(a) : a \in {ZeroAddress, SenderAddress, User1Address}}

\* one message call of Storage: it runs to its end or reverts as a whole
SendToStorage(caller, data, suffix) ==
    LET sender == _msgSender(caller, suffix)
        out == StorageCall(data, sender)
    IN  /\ storedNumber' = out.storedNumber
        /\ owner' = out.owner
        /\ lastCall' = Some([caller |-> caller, data |-> data, suffix |-> suffix,
                             sender |-> sender, ok |-> out.ok, error |-> out.error,
                             logs |-> out.logs,
                             before |-> [storedNumber |-> storedNumber, owner |-> owner]])
        /\ UNCHANGED <<pc, params, forward, signature, prepared, executeData, finalTxNonce,
                       gasLimit, estimate, tx, result, trail, batch, txCount, pool,
                       accepted, receipts, blockNumber, now, usedNonces, allowed,
                       executions, deployed>>

NextStorage ==
    \E caller \in StorageCallers, data \in StorageCallDatas, suffix \in StorageSuffixes :
        SendToStorage(caller, data, suffix)

SpecStorage == Init /\ [][NextStorage]_vars

(***************************************************************************)
(* The entry points called with and without overrides of the domain.       *)
(***************************************************************************)
DomainOverrides ==
    {[name |-> n, version |-> v] : n \in {None, Some("OtherHub")}, v \in {None, Some("2")}}

ExecuteDomainInputs ==
    {[NoParams EXCEPT !.op = "execute", !.callData = EncodeStore(1),
                      !.nonce = Some(StartTime),
                      !.domainName = d.name, !.domainVersion = d.version] :
        d \in DomainOverrides}

DeployDomainInputs ==
    {[NoParams EXCEPT !.op = "deploy", !.contractBytecode = StorageBytecode,
                      !.nonce = Some(StartTime),
                      !.domainName = d.name, !.domainVersion = d.version] :
        d \in DomainOverrides}

ForwardDomainInputs ==
    {[NoParams EXCEPT !.op = "forward", !.callData = EncodeStore(1),
                      !.nonce = Some(StartTime),
                      !.domainName = d.name, !.domainVersion = d.version] :
        d \in DomainOverrides}

\* one invocation in a run
NoneStarted == \A q \in Procs : params[q].op = "none"

ExecuteDomainBegin(p) == NoneStarted /\ \E a \in ExecuteDomainInputs : ExecuteCall(p, a)
DeployDomainBegin(p) == NoneStarted /\ \E a \in DeployDomainInputs : DeployCall(p, a)
ForwardDomainBegin(p) == NoneStarted /\ \E a \in ForwardDomainInputs : PrepareForwardCall(p, a)

NextDomain ==
    \/ \E p \in Procs : ExecuteDomainBegin(p)
    \/ \E p \in Procs : DeployDomainBegin(p)
    \/ \E p \in Procs : ForwardDomainBegin(p)
    \/ \E p \in Procs : Step(p)
    \/ MineBlock

SpecDomain == Init /\ [][NextDomain]_vars

(***************************************************************************)
(* prepareForward and executeForward under every pairing of their          *)
(* hasCaller arguments.                                                    *)
(***************************************************************************)
CallerInputs ==
    {[NoParams EXCEPT !.op = "forward", !.callData = EncodeStore(1),
                      !.nonce = Some(StartTime), !.hasCallerPrepare = h,
                      !.hasCaller = e, !.checkAllowlist = k,
                      !.gasLimit = Some(ScriptGasLimit)] :
        h \in BOOLEAN, e \in BOOLEAN, k \in BOOLEAN}

CallerBegin(p) == \E a \in CallerInputs : PrepareForwardCall(p, a)

NextCaller ==
    \/ \E p \in Procs : CallerBegin(p)
    \/ \E p \in Procs : PrepareForward(p)
    \/ \E p \in Procs : SignForward(p)
    \/ \E p \in Procs : ExecuteForwardCall(p)
    \/ \E p \in Procs : ForwardAllowlist(p)
    \/ \E p \in Procs : Populate(p)
    \/ \E p \in Procs : ForwardSend(p)
    \/ MineBlock

SpecCaller == Init /\ [][NextCaller]_vars

(***************************************************************************)
(* simulateMetaTxCall (lib/metaTxExecute.ts): the execute call is built    *)
(* and signed as in executeViaMetaTx, then run with provider.call.         *)
(***************************************************************************)
\* what the catch block of simulateMetaTxCall returns
SimulateFailure(message) == [success |-> FALSE, error |-> message]

\* return { success: true, result }
SimulateSuccess(returned) == [success |-> TRUE, result |-> returned]

\* the request `stage` of the simulation p throws `message`
SimulateThrow(p, stage, message) ==
    /\ pc' = [pc EXCEPT ![p] = CatchTarget(stage)]
    /\ result' = [result EXCEPT ![p] =
                    IF CatchTarget(stage) = "done" THEN Some(SimulateFailure(message))
                    ELSE @]
    /\ trail' = [trail EXCEPT ![p] = Append(@, stage)]

SimulateInputs ==
    {[NoParams EXCEPT !.op = "simulate", !.callData = c, !.nonce = n] :
        c \in {EncodeStore(1), EmptyBytes}, n \in {None, Some(StartTime)}}

\* the call with arguments a, up to the first await: nothing is validated;
\* finalNonce, finalDeadline and dataHash are computed, which the Forward
\* built after getNetwork holds
SimulateCall(p, a) ==
    /\ pc[p] = "idle"
    /\ params' = [params EXCEPT ![p] = a]
    /\ \E random \in 0..MaxRand :
          LET finalNonce == IF IsNone(a.nonce) THEN Some(generateSecureNonce(random))
                            ELSE a.nonce
              finalDeadline == OrElse(a.deadline,
                                      now + OrElse(a.deadlineSec, ExecDefaultDeadlineSec))
          IN  forward' = [forward EXCEPT ![p] =
                  Some(createForwardRequest(SenderAddress, a.targetAddress, Some(0),
                                            Some(0), finalNonce, finalDeadline,
                                            keccak256(a.callData), RelayerAddress))]
    /\ pc' = [pc EXCEPT ![p] = "getNetwork"]
    /\ UNCHANGED <<result, trail, signature, prepared, executeData, finalTxNonce,
                   tx, chainVars, allowed, now, gasLimit, estimate, batch, lastCall>>

SimulateBegin(p) == \E a \in SimulateInputs : SimulateCall(p, a)

\* await provider.getNetwork()
SimulateGetNetwork(p) ==
    /\ pc[p] = "getNetwork"
    /\ params[p].op = "simulate"
    /\ \/ SimulateThrow(p, "getNetwork", "network error")
       \/ Goto(p, "getNetwork", "sign")
    /\ UNCHANGED <<params, forward, signature, prepared, executeData, finalTxNonce, tx,
                   chainVars, allowed, now, gasLimit, estimate, batch, lastCall>>

\* await senderWallet.signTypedData(...), then the encoding of the execute call
SimulateSign(p) ==
    /\ pc[p] = "sign"
    /\ params[p].op = "simulate"
    /\ LET a == params[p]
           f == Get(forward[p])
           domain == Domain(EIP712_DOMAIN_NAME, EIP712_DOMAIN_VERSION, ChainId,
                            a.hubAddress)
           sig == SignTypedData(SenderAddress, domain, FORWARD_TYPE, f)
       IN  \/ /\ SimulateThrow(p, "signTypedData", "signing rejected")
              /\ UNCHANGED <<signature, executeData>>
           \/ /\ signature' = [signature EXCEPT ![p] = sig]
              /\ executeData' = [executeData EXCEPT ![p] =
                                    EncodeExecute(forwardToTuple(f), a.callData, sig)]
              /\ Goto(p, "signTypedData", "call")
    /\ UNCHANGED <<params, forward, prepared, finalTxNonce, tx, chainVars, allowed, now,
                   gasLimit, estimate, batch, lastCall>>

\* await provider.call({from, to, data, value}): nothing is sent
SimulateProviderCall(p) ==
    /\ pc[p] = "call"
    /\ params[p].op = "simulate"
    /\ \/ SimulateThrow(p, "call", "network error")
       \/ /\ ~SimulationSucceeds(RelayerAddress, params[p].hubAddress, executeData[p])
          /\ SimulateThrow(p, "call", "execution reverted")
       \/ /\ SimulationSucceeds(RelayerAddress, params[p].hubAddress, executeData[p])
          /\ Return(p, "call", SimulateSuccess(EmptyBytes))
    /\ UNCHANGED <<params, forward, signature, prepared, executeData, finalTxNonce, tx,
                   chainVars, allowed, now, gasLimit, estimate, batch, lastCall>>

\* concurrent invocations of executeViaMetaTx, deployViaMetaTx and simulateMetaTxCall
NextReturn ==
    \/ \E p \in Procs : ExecuteBeginBasic(p)
    \/ \E p \in Procs : DeployBegin(p)
    \/ \E p \in Procs : SimulateBegin(p)
    \/ \E p \in Procs : ExecuteGetNetwork(p)
    \/ \E p \in Procs : ExecuteSign(p)
    \/ \E p \in Procs : ExecuteGetTransactionCount(p)
    \/ \E p \in Procs : ExecuteSend(p)
    \/ \E p \in Procs : ExecuteWait(p)
    \/ \E p \in Procs : DeployGetNetwork(p)
    \/ \E p \in Procs : DeploySign(p)
    \/ \E p \in Procs : Populate(p)
    \/ \E p \in Procs : DeploySend(p)
    \/ \E p \in Procs : DeployWait(p)
    \/ \E p \in Procs : SimulateGetNetwork(p)
    \/ \E p \in Procs : SimulateSign(p)
    \/ \E p \in Procs : SimulateProviderCall(p)
    \/ MineBlock
    \/ Tick

SpecReturn == Init /\ [][NextReturn]_vars

\* the relay pipelines make progress and time passes; whether a block ever
\* includes a pending transaction is up to the network
SpecFair ==
    /\ Init
    /\ [][Next]_vars
    /\ \A p \in Procs : WF_vars(Step(p))
    /\ WF_vars(Tick)

(***************************************************************************)
(* Properties.                                                             *)
(***************************************************************************)
\* invocation p made the network request named stage
Requested(p, stage) == \E i \in DOMAIN trail[p] : trail[p][i] = stage

\* how many times invocation p made the request named stage
RequestCount(p, stage) == Cardinality({i \in DOMAIN trail[p] : trail[p][i] = stage})

\* invocation p has returned the failure result with this error
FailedWith(p, message) ==
    /\ pc[p] = "done"
    /\ result[p] # None
    /\ ~Get(result[p]).success
    /\ Get(result[p]).error = message

\* the admitted submissions of sender s with counter value n, by position
Submissions(s, n) ==
    {i \in DOMAIN accepted : accepted[i].from = s /\ accepted[i].nonce = n}

\* the position of the last admitted submission of sender s with counter value n
LastSubmission(s, n) ==
    CHOOSE i \in Submissions(s, n) : \A j \in Submissions(s, n) : j <= i

\* the receipt status of an included transaction
StatusOf(t) == (CHOOSE r \in receipts : r.hash = TxHash(t)).status

\* C1: two executeViaMetaTx pipelines of the same relayer that both run without
\* an explicit txNonce never send transactions carrying the same relayer
\* counter value.
C1_CountersDistinct ==
    \A p, q \in Procs :
        (/\ p # q
         /\ params[p].op = "execute" /\ params[q].op = "execute"
         /\ IsNone(params[p].txNonce) /\ IsNone(params[q].txNonce)
         /\ tx[p] # None /\ tx[q] # None)
        => Get(tx[p]).nonce # Get(tx[q]).nonce

\* C2: when exactly two transactions of one sender with the same counter value
\* and gas price 0 are admitted, their hashes differ; once the counter value is
\* consumed exactly one of them is included and the other is Superseded, and
\* the sender's pending counter is the shared value plus one.
C2_ExactlyOneIncluded ==
    \A n \in 0..Len(accepted) :
        LET S == Submissions(User1Address, n) IN
        Cardinality(S) = 2 =>
            /\ \A i, j \in S : i # j => TxHash(accepted[i]) # TxHash(accepted[j])
            /\ txCount[User1Address] > n =>
                /\ Cardinality({i \in S : IsMined(accepted[i])}) = 1
                /\ Cardinality({i \in S : Superseded(accepted[i])}) = 1
                /\ (\A i \in DOMAIN accepted : accepted[i].nonce <= n)
                      => PendingCount(User1Address) = n + 1

\* two store transactions with different arguments shared a counter value, a
\* block was mined and nothing is pending
C2_Witness ==
    \E n \in 0..Len(accepted) :
        LET S == Submissions(User1Address, n) IN
        /\ Cardinality(S) = 2
        /\ \E i, j \in S : accepted[i].data # accepted[j].data
        /\ txCount[User1Address] = n + 1
        /\ pool = {}

\* C3: among two or more transactions of one sender admitted with the same
\* counter value and gas price 0, whatever their gas limits, the one admitted
\* last is the one included, and right after its inclusion the Storage value
\* is the argument of that last store call.
C3_LastSubmittedWins ==
    \A n \in 0..Len(accepted) :
        LET S == Submissions(User1Address, n) IN
        (Cardinality(S) >= 2 /\ txCount[User1Address] > n) =>
            /\ IsMined(accepted[LastSubmission(User1Address, n)])
            /\ txCount[User1Address] = n + 1
                  => storedNumber = accepted[LastSubmission(User1Address, n)].data[2]

\* three store transactions shared a counter value, the last one with a lower
\* gas limit and another argument than the first, and the block was mined
C3_Witness ==
    \E n \in 0..Len(accepted) :
        LET S == Submissions(User1Address, n)
            last == LastSubmission(User1Address, n)
        IN  /\ Cardinality(S) >= 3
            /\ txCount[User1Address] = n + 1
            /\ \E i \in S : /\ i < last
                            /\ accepted[i].gasLimit > accepted[last].gasLimit
                            /\ accepted[i].data # accepted[last].data
            /\ storedNumber = accepted[last].data[2]

\* C4: when no invocation passed a txNonce, no transaction an invocation sent
\* ends Superseded.
C4_SupersededOnlyDeliberate ==
    (\A q \in Procs : IsNone(params[q].txNonce))
        => \A p \in Procs : tx[p] # None => ~Superseded(Get(tx[p]))

\* the transaction carries an execute call of the hub
IsExecuteCall(t) == t.to = HubAddress /\ Len(t.data) = 4 /\ t.data[1] = "execute"

\* the (from, space, nonce) identity of a Forward tuple
ForwardKey(f) == <<f[1], f[4], f[5]>>

\* the included execute calls that ran their payload
Executed ==
    {i \in DOMAIN accepted :
        /\ IsExecuteCall(accepted[i])
        /\ IsMined(accepted[i])
        /\ StatusOf(accepted[i]) = 1}

\* the included execute call at position i was refused although its signature,
\* deadline, payload and caller are all in order
RefusedInOrder(i) ==
    LET t == accepted[i]
        f == t.data[2]
    IN  /\ IsExecuteCall(t)
        /\ IsMined(t)
        /\ StatusOf(t) = 0
        /\ Recover(t.data[4], HubDomain, FORWARD_TYPE, f) = f[1]
        /\ now <= f[6]
        /\ keccak256(t.data[3]) = f[7]
        /\ f[8] = t.from
        /\ isCallerAllowed(t.from)
        /\ StorageCall(t.data[3], f[1]).ok

\* C5: with the verifier of the hub, no two executed Forwards share their
\* (from, space, nonce); of the included execute calls carrying one such
\* identity at most one ran its payload, whatever relayer counter values they
\* used; and a call refused with everything else in order is a replay: a call
\* with the same identity was executed.
C5_ExecutedAtMostOnce ==
    /\ \A i, j \in DOMAIN executions :
          i # j => ForwardKey(executions[i]) # ForwardKey(executions[j])
    /\ \A i, j \in Executed :
          TxHash(accepted[i]) # TxHash(accepted[j])
              => ForwardKey(accepted[i].data[2]) # ForwardKey(accepted[j].data[2])
    /\ \A i \in DOMAIN accepted :
          RefusedInOrder(i) =>
              \E j \in Executed :
                  ForwardKey(accepted[j].data[2]) = ForwardKey(accepted[i].data[2])

\* the same signed Forward was relayed twice under different relayer counter
\* values: the first call executed it, the second was included and refused
C5_Witness ==
    \E i, j \in DOMAIN accepted :
        /\ i \in Executed
        /\ RefusedInOrder(j)
        /\ accepted[i].data = accepted[j].data
        /\ accepted[i].nonce # accepted[j].nonce
        /\ Len(executions) = 1

\* C6: in every execute call an invocation has built, the dataHash field of the
\* Forward tuple is the hash of the payload argument of that same call; the
\* payload is the callData passed in, or for a deployment the bytecode followed
\* by the encoded constructor arguments; and what prepareForward returns holds
\* the callData passed in, unchanged, with dataHash its hash.
C6_DataHashBindsPayload ==
    \A p \in Procs :
        /\ executeData[p] # EmptyBytes =>
            /\ executeData[p][2][7] = keccak256(executeData[p][3])
            /\ params[p].op = "deploy" =>
                  executeData[p][3] =
                      params[p].contractBytecode \o
                          (IF params[p].constructorArgs = << >> THEN << >>
                           ELSE AbiEncodeArgs(params[p].constructorTypes,
                                              params[p].constructorArgs))
            /\ params[p].op \in {"execute", "forward"} =>
                  executeData[p][3] = params[p].callData
        /\ prepared[p] # None =>
            /\ Get(prepared[p]).callData = params[p].callData
            /\ Get(prepared[p]).dataHash = keccak256(params[p].callData)
            /\ Get(prepared[p]).fTuple[7] = Get(prepared[p]).dataHash

\* one invocation has built the execute call of a deployment with constructor
\* arguments while the other has built one from what prepareForward returned
C6_Witness ==
    \E p, q \in Procs :
        /\ params[p].op = "deploy"
        /\ params[p].constructorArgs # << >>
        /\ executeData[p] # EmptyBytes
        /\ params[q].op = "forward"
        /\ prepared[q] # None
        /\ executeData[q] # EmptyBytes

\* C7: a result of executeViaMetaTx or deployViaMetaTx with success = true
\* exists only when the transaction the invocation sent is included; it
\* carries the receipt of that transaction, which is not null, and its hash.
C7_SuccessOnlyAfterInclusion ==
    \A p \in Procs :
        (/\ params[p].op \in {"execute", "deploy"}
         /\ result[p] # None
         /\ Get(result[p]).success)
        => /\ tx[p] # None
           /\ IsMined(Get(tx[p]))
           /\ Get(result[p]).receipt # None
           /\ Get(result[p]).receipt = GetTransactionReceipt(TxHash(Get(tx[p])))
           /\ Get(result[p]).transactionHash = TxHash(Get(tx[p]))

\* executeViaMetaTx has returned success while the transaction of a concurrent
\* deployViaMetaTx is broadcast and still awaits its confirmation
C7_Witness ==
    \E p, q \in Procs :
        /\ params[p].op = "execute"
        /\ result[p] # None
        /\ Get(result[p]).success
        /\ params[q].op = "deploy"
        /\ pc[q] = "wait"
        /\ tx[q] # None

C9_AtMostOneBroadcast ==
    /\ \A p \in Procs : RequestCount(p, "sendTransaction") <= 1
    /\ Len(accepted) = Cardinality({p \in Procs : tx[p] # None})

\* the confirmation of a broadcast transaction has failed and the invocation
\* has returned the failure, while another invocation failed at submission
C9_Witness ==
    \E p, q \in Procs :
        /\ tx[p] # None
        /\ Requested(p, "wait")
        /\ pc[p] = "done"
        /\ ~Get(result[p]).success
        /\ tx[q] = None
        /\ FailedWith(q, "transaction rejected")

\* the flags under which executeForward asks the hub about the caller
AllowlistFlags(p) ==
    params[p].checkAllowlist /\ params[p].hasCaller /\ params[p].abiHasAllowlist

\* the caller executeForward asks about: the last element of the tuple
CallerOf(p) == Get(prepared[p]).fTuple[Len(Get(prepared[p]).fTuple)]

\* C10: in executeForward with checkAllowlist, hasCaller and an isCallerAllowed
\* function in the ABI, when the hub does not allow the caller the invocation
\* makes neither an estimateGas nor a sendTransaction request and sends
\* nothing, and once the hub has answered it has failed with the
\* caller-not-allowed error; when checkAllowlist or hasCaller is false it never
\* asks the hub.
C10_AllowlistFailFast ==
    \A p \in Procs :
        params[p].op = "forward" =>
            /\ (/\ AllowlistFlags(p)
                /\ executeData[p] # EmptyBytes
                /\ ~isCallerAllowed(CallerOf(p)))
               => /\ ~Requested(p, "estimateGas")
                  /\ ~Requested(p, "sendTransaction")
                  /\ tx[p] = None
                  /\ pc[p] \in {"allowlist", "done"}
                  /\ pc[p] = "done" =>
                        \/ FailedWith(p, "Caller not allowed")
                        \/ FailedWith(p, "network error")
            /\ (~params[p].checkAllowlist \/ ~params[p].hasCaller)
               => ~Requested(p, "isCallerAllowed")

\* the hub refused the caller of one invocation, which failed with the
\* caller-not-allowed error, while an invocation with checkAllowlist false
\* went on to estimate gas without asking
C10_Witness ==
    \E p, q \in Procs :
        /\ params[p].op = "forward"
        /\ AllowlistFlags(p)
        /\ Requested(p, "isCallerAllowed")
        /\ FailedWith(p, "Caller not allowed")
        /\ params[q].op = "forward"
        /\ ~params[q].checkAllowlist
        /\ Requested(q, "estimateGas")

\* C11: in executeForward without overrides.gasLimit, a transaction is sent only
\* after an estimateGas request for the same to, data and value has succeeded,
\* and carries the estimated limit; after a failed estimation nothing is sent
\* and the invocation has failed; with overrides.gasLimit no estimation is made
\* and a transaction sent carries the supplied limit.
C11_EstimateOrSupplied ==
    \A p \in Procs :
        params[p].op = "forward" =>
            /\ (IsNone(params[p].gasLimit) /\ tx[p] # None) =>
                  /\ estimate[p] # None
                  /\ Get(estimate[p]).ok
                  /\ Get(estimate[p]).to = Get(tx[p]).to
                  /\ Get(estimate[p]).data = Get(tx[p]).data
                  /\ Get(estimate[p]).value = Get(tx[p]).value
                  /\ Get(tx[p]).gasLimit = EstimatedGas
            /\ (estimate[p] # None /\ ~Get(estimate[p]).ok) =>
                  /\ tx[p] = None
                  /\ ~Requested(p, "sendTransaction")
                  /\ FailedWith(p, "execution reverted")
            /\ ~IsNone(params[p].gasLimit) =>
                  /\ estimate[p] = None
                  /\ ~Requested(p, "estimateGas")
                  /\ tx[p] # None => Get(tx[p]).gasLimit = Get(params[p].gasLimit)

\* one executeForward estimated its transaction and sent it with the estimated
\* limit; the estimation of another failed and that one sent nothing
C11_Witness ==
    \E p, q \in Procs :
        /\ params[p].op = "forward"
        /\ IsNone(params[p].gasLimit)
        /\ tx[p] # None
        /\ Get(tx[p]).gasLimit = EstimatedGas
        /\ params[q].op = "forward"
        /\ estimate[q] # None
        /\ ~Get(estimate[q]).ok
        /\ FailedWith(q, "execution reverted")

EnteredExecuteForward(p) ==
    /\ params[p].op = "forward"
    /\ prepared[p] # None
    /\ signature[p] # EmptyBytes
    /\ pc[p] \notin {"signForward", "executeForward"}

\* C13: when the encoding of the execute call yields an empty payload,
\* executeForward has failed with the empty-payload error as soon as it was
\* entered: it makes no allowlist query, no gas estimation and no
\* sendTransaction request, sends nothing, and stays failed.
C13_EmptyPayloadFailsFirst ==
    \A p \in Procs :
        (/\ EnteredExecuteForward(p)
         /\ params[p].encodesEmpty
         /\ CanEncodeExecute(Get(prepared[p]).fTuple))
        => /\ FailedWith(p, "Empty execData.")
           /\ ~Requested(p, "isCallerAllowed")
           /\ ~Requested(p, "estimateGas")
           /\ ~Requested(p, "getTransactionCount")
           /\ ~Requested(p, "sendTransaction")
           /\ executeData[p] = EmptyBytes
           /\ tx[p] = None

\* an executeForward whose encoding came out empty has failed, while another
\* with the same flags and a proper encoding went on to ask the hub
C13_Witness ==
    \E p, q \in Procs :
        /\ EnteredExecuteForward(p)
        /\ params[p].encodesEmpty
        /\ FailedWith(p, "Empty execData.")
        /\ params[p].checkAllowlist /\ params[p].hasCaller /\ params[p].abiHasAllowlist
        /\ EnteredExecuteForward(q)
        /\ ~params[q].encodesEmpty
        /\ Requested(q, "isCallerAllowed")

\* C14: prepareForward called with an undefined nonce, or with an empty
\* callData, has failed with the matching error without any network request
\* and has prepared nothing; called with nonce 0 and a proper callData it does
\* not fail on the nonce: it goes on to the network, and what it prepares
\* carries the nonce 0.
C14_RejectsBeforeNetwork ==
    \A p \in Procs :
        params[p].op = "forward" =>
            /\ IsNone(params[p].nonce) =>
                  /\ FailedWith(p, "The parameter 'nonce' is required.")
                  /\ trail[p] = << >>
                  /\ prepared[p] = None
            /\ (~IsNone(params[p].nonce) /\ params[p].callData = EmptyBytes) =>
                  /\ FailedWith(p, "Empty callData.")
                  /\ trail[p] = << >>
                  /\ prepared[p] = None
            /\ (params[p].nonce = Some(0) /\ params[p].callData # EmptyBytes) =>
                  /\ pc[p] = "getNetwork" \/ Requested(p, "getNetwork")
                  /\ prepared[p] # None => Get(prepared[p]).message.nonce = Some(0)

\* prepareForward with nonce 0 has returned its result while another call,
\* without a nonce, has failed before any request
C14_Witness ==
    \E p, q \in Procs :
        /\ params[p].op = "forward"
        /\ params[p].nonce = Some(0)
        /\ prepared[p] # None
        /\ params[q].op = "forward"
        /\ IsNone(params[q].nonce)
        /\ FailedWith(q, "The parameter 'nonce' is required.")
        /\ trail[q] = << >>

\* C15: whatever prepareForward returns has a well-formed address as `from`
\* and as `to`.
C15_PartiesWellFormed ==
    \A p \in Procs :
        (params[p].op = "forward" /\ prepared[p] # None)
        => /\ IsAddress(Get(prepared[p]).message.from)
           /\ IsAddress(Get(prepared[p]).message.to)

\* the values the clock takes
ClockValues == {StartTime + k * TickSec : k \in 0..MaxTicks}

\* the deadline is a clock value, not later than now, plus this many seconds
DeadlineIsClockPlus(deadline, seconds) ==
    /\ deadline - seconds \in ClockValues
    /\ deadline - seconds <= now

\* C16: the deadline of what prepareForward returns is the explicit deadline
\* when one is given; otherwise it is the time of the call plus deadlineSec
\* for every supplied deadlineSec, 0 included, and plus 600 when deadlineSec
\* is not supplied.
C16_DeadlineComputed ==
    \A p \in Procs :
        (params[p].op = "forward" /\ prepared[p] # None) =>
            LET a == params[p]
                deadline == Get(prepared[p]).message.deadline
            IN  /\ ~IsNone(a.deadline) => deadline = Get(a.deadline)
                /\ (IsNone(a.deadline) /\ ~IsNone(a.deadlineSec)) =>
                      DeadlineIsClockPlus(deadline, Get(a.deadlineSec))
                /\ (IsNone(a.deadline) /\ IsNone(a.deadlineSec)) =>
                      DeadlineIsClockPlus(deadline, PrepareDefaultDeadlineSec)

ForwardFieldOrder ==
    <<"from", "to", "value", "space", "nonce", "deadline", "dataHash", "caller">>

\* the fields a prepared Forward has: all eight with caller, the first seven without
PreparedArity(p) == IF params[p].hasCallerPrepare THEN 8 ELSE 7

\* C17: the tuple prepareForward returns lists (from, to, value, space, nonce,
\* deadline, dataHash, caller) in this order, caller last and only in the
\* with-caller variant; the schema names the same fields in the same order, the
\* message holds the same values, forwardToTuple of the with-caller message is
\* the same tuple, and the values signed under the returned schema are the tuple.
C17_TupleOrder ==
    \A p \in Procs :
        ~IsNone(prepared[p]) =>
            LET r == Get(prepared[p])
                a == params[p]
                n == PreparedArity(p)
            IN  /\ Len(r.fTuple) = n
                /\ r.types = SubSeq(ForwardFieldOrder, 1, n)
                /\ DOMAIN r.message = {ForwardFieldOrder[i] : i \in 1..n}
                /\ \A i \in 1..n : r.fTuple[i] = r.message[ForwardFieldOrder[i]]
                /\ r.fTuple[1] = a.from
                /\ r.fTuple[2] = a.targetAddress
                /\ r.fTuple[5] = a.nonce
                /\ r.fTuple[7] = keccak256(a.callData)
                /\ a.hasCallerPrepare =>
                      /\ r.fTuple[8] = RelayerAddress
                      /\ forwardToTuple(r.message) = r.fTuple
                /\ (pc[p] = "executeForward" /\ IsNone(a.signTypes)) =>
                      /\ signature[p][3] = r.types
                      /\ signature[p][4] = r.fTuple

\* both variants have been prepared and signed under the schema returned
C17_Witness ==
    \E p, q \in Procs :
        /\ pc[p] = "executeForward" /\ pc[q] = "executeForward"
        /\ IsNone(params[p].signTypes) /\ IsNone(params[q].signTypes)
        /\ params[p].hasCallerPrepare /\ ~params[q].hasCallerPrepare
        /\ Len(Get(prepared[p]).fTuple) = 8
        /\ Len(Get(prepared[q]).fTuple) = 7

\* the schema variant other than the given one
OtherVariant(types) ==
    IF types = FORWARD_TYPE THEN FORWARD_TYPE_NO_CALLER ELSE FORWARD_TYPE

\* the signature the execute call t carries, and the schema it was made under
SignatureOf(t) == t.data[4]
SignedSchema(sig) == sig[3]

\* the included execute calls whose signature was made under the variant the
\* verifier does not use
MismatchedIncluded ==
    {i \in DOMAIN accepted :
        /\ IsExecuteCall(accepted[i])
        /\ IsMined(accepted[i])
        /\ SignedSchema(SignatureOf(accepted[i])) # FORWARD_TYPE}

\* C18: a signature made under one schema variant does not recover to `from`
\* under the other variant, whatever values of the Forward the verifier hashes;
\* and an execute call whose signature was made under the variant the verifier
\* does not use is included with status 0 and its Forward is never executed.
C18_MismatchNeverExecuted ==
    /\ \A p \in Procs :
          Len(signature[p]) = 4 =>
              LET sig == signature[p]
                  r == Get(prepared[p])
                  other == OtherVariant(SignedSchema(sig))
              IN  \A v \in {r.fTuple, SubSeq(r.fTuple, 1, 7), sig[4]} :
                      Recover(sig, r.domain, other, v) # params[p].from
    /\ \A i \in MismatchedIncluded : StatusOf(accepted[i]) = 0
    /\ \A i \in Executed : SignedSchema(SignatureOf(accepted[i])) = FORWARD_TYPE

\* a relay signed without caller was included and refused by the verifier, and
\* a relay signed with caller was executed
C18_Witness ==
    /\ \E i \in MismatchedIncluded :
          /\ StatusOf(accepted[i]) = 0
          /\ accepted[i].data[2] \notin {executions[k] : k \in DOMAIN executions}
    /\ Executed # {}

\* the errors a failed signTypedData leaves
SigningErrors == {"signing rejected", "invalid value"}

\* invocation p has failed in signing
SigningFailed(p) == \E m \in SigningErrors : FailedWith(p, m)

\* C20: an invocation asks for a signature at most once; when signing fails the
\* invocation ends with the failure, the signing request is its last request,
\* it has built and sent no transaction, and in executeViaMetaTx and
\* deployViaMetaTx the outcome returned is the failed one, without transaction
\* hash, receipt or signature.
C20_SigningFailureSendsNothing ==
    \A p \in Procs :
        /\ RequestCount(p, "signTypedData") <= 1
        /\ SigningFailed(p) =>
              /\ trail[p][Len(trail[p])] = "signTypedData"
              /\ ~Requested(p, "sendTransaction")
              /\ tx[p] = None
              /\ params[p].op \in {"execute", "deploy"} =>
                    /\ Get(result[p]).transactionHash = EmptyBytes
                    /\ Get(result[p]).receipt = None
                    /\ Get(result[p]).signature = EmptyBytes

\* an executeViaMetaTx and a deployViaMetaTx invocation have both failed in
\* signing and the node has admitted nothing
C20_Witness ==
    \E p, q \in Procs :
        /\ params[p].op = "execute" /\ FailedWith(p, "signing rejected")
        /\ params[q].op = "deploy" /\ FailedWith(q, "signing rejected")
        /\ Len(accepted) = 0

\* the positions of the ContractDeployed entries of a log list
DeployedPositions(logs) == {i \in 1..Len(logs) : logs[i].name = "ContractDeployed"}

\* the `deployed` field of the first ContractDeployed entry in receipt order
FirstDeployed(logs) ==
    IF DeployedPositions(logs) = {} THEN None
    ELSE Some(logs[CHOOSE i \in DeployedPositions(logs) :
                     \A j \in DeployedPositions(logs) : i <= j].deployed)

\* invocation p has returned the outcome of an extraction from a receipt
Extracted(p) ==
    /\ pc[p] = "done"
    /\ params[p].op \in {"getDeployedAddress", "script", "deploy"}
    /\ ~IsNone(result[p])
    /\ ~IsNone(Get(result[p]).receipt)

\* C21: getDeployedAddress, the loop of deployViaMetaTx and the loop of the
\* deploy script each return the `deployed` field of the first entry, in
\* receipt order, that decodes as ContractDeployed; entries that do not decode
\* or decode to another event are skipped without an error; and any two of the
\* extractions agree on the same receipt.
C21_FirstDeployedLog ==
    /\ \A p \in Procs :
          Extracted(p) =>
              /\ Get(result[p]).success
              /\ Get(result[p]).deployedAddress =
                    FirstDeployed(Get(Get(result[p]).receipt).logs)
    /\ \A p \in Procs :
          (pc[p] = "done" /\ params[p].op \in {"getDeployedAddress", "script"}) =>
              Extracted(p)
    /\ \A p, q \in Procs :
          (Extracted(p) /\ Extracted(q)
             /\ Get(result[p]).receipt = Get(result[q]).receipt) =>
              Get(result[p]).deployedAddress = Get(result[q]).deployedAddress

\* a receipt whose first entry does not decode as ContractDeployed and whose
\* next two are ContractDeployed of different contracts has been read by
\* deployViaMetaTx and by another extraction, and both gave the second entry
C21_Witness ==
    \E p, q \in Procs :
        /\ Extracted(p) /\ params[p].op = "deploy"
        /\ Extracted(q) /\ params[q].op \in {"getDeployedAddress", "script"}
        /\ LET logs == Get(Get(result[p]).receipt).logs
           IN  /\ Get(result[q]).receipt = Get(result[p]).receipt
               /\ Len(logs) = 3
               /\ logs[1].name # "ContractDeployed"
               /\ logs[2].name = "ContractDeployed"
               /\ logs[3].name = "ContractDeployed"
               /\ logs[2].deployed # logs[3].deployed
               /\ Get(result[p]).deployedAddress = Some(logs[2].deployed)
               /\ Get(result[q]).deployedAddress = Some(logs[2].deployed)

\* the receipt invocation p extracted from holds no ContractDeployed entry
NoDeployedEntry(p) == DeployedPositions(Get(Get(result[p]).receipt).logs) = {}

\* C22: when the confirmed receipt holds no ContractDeployed entry,
\* getDeployedAddress returns null without an error, and deployViaMetaTx
\* returns success = true with the transaction hash, the receipt and a null
\* deployedAddress, not a failure.
C22_NullAddressStillSuccess ==
    \A p \in Procs :
        (Extracted(p) /\ NoDeployedEntry(p)) =>
            /\ Get(result[p]).deployedAddress = None
            /\ Get(result[p]).success
            /\ Get(result[p]).error = ""
            /\ params[p].op = "deploy" =>
                  /\ Get(Get(result[p]).receipt).status = 1
                  /\ Get(result[p]).transactionHash = TxHash(Get(tx[p]))
                  /\ Get(result[p]).signature = signature[p]

\* a deployment was confirmed with a receipt that holds entries but no
\* ContractDeployed; deployViaMetaTx returned success with a null address and
\* getDeployedAddress returned null on the same receipt
C22_Witness ==
    \E p, q \in Procs :
        /\ Extracted(p) /\ params[p].op = "deploy" /\ NoDeployedEntry(p)
        /\ Len(Get(Get(result[p]).receipt).logs) > 0
        /\ Get(result[p]).success
        /\ Get(result[p]).deployedAddress = None
        /\ Extracted(q) /\ params[q].op = "getDeployedAddress"
        /\ Get(result[q]).receipt = Get(result[p]).receipt
        /\ Get(result[q]).deployedAddress = None

\* the admitted transactions whose counter value was taken by an included
\* transaction with another hash
ReplacedByIncluded ==
    {i \in DOMAIN accepted :
        \E j \in DOMAIN accepted :
            /\ accepted[j].from = accepted[i].from
            /\ accepted[j].nonce = accepted[i].nonce
            /\ TxHash(accepted[j]) # TxHash(accepted[i])
            /\ \E r \in receipts : r.hash = TxHash(accepted[j])}

ResultStructure(r) ==
    [success |-> r.success, hasHash |-> r.transactionHash # EmptyBytes,
     hasReceipt |-> ~IsNone(r.receipt), hasSignature |-> r.signature # EmptyBytes,
     hasError |-> r.error # ""]

\* executeViaMetaTx invocation p has returned and its transaction was superseded
ReturnedSuperseded(p) ==
    /\ params[p].op = "execute"
    /\ pc[p] = "done"
    /\ ~IsNone(tx[p])
    /\ Superseded(Get(tx[p]))

\* executeViaMetaTx invocation p has returned and its transaction was included
\* and reverted
ReturnedReverted(p) ==
    /\ params[p].op = "execute"
    /\ pc[p] = "done"
    /\ ~IsNone(tx[p])
    /\ IsMined(Get(tx[p]))
    /\ StatusOf(Get(tx[p])) = 0

\* C24: the result executeViaMetaTx returns for a superseded transaction is not
\* an error result, and its structure differs from the structure of the result
\* returned for a reverted transaction.
C24_SupersededDistinct ==
    \A p \in Procs :
        ReturnedSuperseded(p) =>
            /\ Get(result[p]).error = ""
            /\ \A q \in Procs :
                  ReturnedReverted(q) =>
                      ResultStructure(Get(result[p])) # ResultStructure(Get(result[q]))

\* C25: executeForward returns the transaction response in the step in which
\* the node accepts the transaction: once its transaction is accepted the
\* invocation has returned it, sendTransaction was its last request, no
\* confirmation was awaited and the result carries no receipt, whether or not
\* the transaction has been included since.
C25_ReturnsOnBroadcast ==
    \A p \in Procs :
        (params[p].op = "forward" /\ ~IsNone(tx[p])) =>
            /\ pc[p] = "done"
            /\ Get(result[p]).success
            /\ Get(result[p]).transactionHash = TxHash(Get(tx[p]))
            /\ Get(result[p]).receipt = None
            /\ trail[p][Len(trail[p])] = "sendTransaction"
            /\ ~Requested(p, "wait")
            /\ \E i \in DOMAIN accepted : accepted[i] = Get(tx[p])

\* executeForward has returned while its transaction is pending in the pool,
\* not included in any block
C25_Witness ==
    \E p \in Procs :
        /\ params[p].op = "forward"
        /\ pc[p] = "done"
        /\ Get(result[p]).success
        /\ Get(tx[p]) \in pool
        /\ ~IsMined(Get(tx[p]))
        /\ blockNumber = 0

\* invocation p has built a Forward whose deadline had passed already
BuiltPastDeadline(p) ==
    /\ params[p].op = "forward"
    /\ ~IsNone(prepared[p])
    /\ Get(prepared[p]).message.deadline < StartTime

\* a Forward whose deadline had passed is never executed, its transaction, when
\* sent, is included with status 0, and the target keeps its state
PastDeadlineNeverExecuted ==
    /\ \A i \in DOMAIN executions : executions[i][6] >= StartTime
    /\ \A p \in Procs :
          (BuiltPastDeadline(p) /\ ~IsNone(tx[p]) /\ IsMined(Get(tx[p]))) =>
              StatusOf(Get(tx[p])) = 0
    /\ (\A p \in Procs : ~IsNone(prepared[p]) => BuiltPastDeadline(p)) =>
          storedNumber = 0

\* a Forward with a passed deadline was built, signed, sent and refused
PastDeadlineRelayed ==
    \E p \in Procs :
        /\ BuiltPastDeadline(p)
        /\ ~IsNone(tx[p])
        /\ IsMined(Get(tx[p]))
        /\ StatusOf(Get(tx[p])) = 0
        /\ storedNumber = 0

\* C26: prepareForward given a deadline already in the past builds the Forward
\* and emits a warning, and the Forward relayed to the hub is not executed and
\* leaves the state of the target unchanged.
C26_PastDeadlineWarned ==
    /\ \A p \in Procs :
          (params[p].op = "forward" /\ pc[p] \notin {"idle", "getNetwork"}
             /\ ~IsNone(params[p].deadline) /\ ~IsNone(prepared[p])) =>
              Get(prepared[p]).message.deadline = Get(params[p].deadline)
    /\ \A p \in Procs :
          BuiltPastDeadline(p) => Get(prepared[p]).warnings # << >>
    /\ PastDeadlineNeverExecuted

\* executeViaMetaTx invocation p relayed store(v) and returned success
StoredWithSuccess(p) ==
    /\ params[p].op = "execute"
    /\ pc[p] = "done"
    /\ Get(result[p]).success

\* no transaction that ran was included after the one of invocation p
NoLaterWrite(p) ==
    \A r \in receipts :
        r.status = 1 => r.blockNumber <= Get(Get(result[p]).receipt).blockNumber

\* storage.retrieve()
retrieve == storedNumber

\* C27: a Forward to Storage with payload store(v) that was built, signed,
\* encoded, submitted and confirmed is included with status 1 and executed by
\* the hub, and as long as no later transaction has written, retrieve returns v.
C27_StoreThenRetrieve ==
    \A p \in Procs :
        StoredWithSuccess(p) =>
            LET r == Get(Get(result[p]).receipt)
                v == params[p].callData[2]
            IN  /\ r.status = 1
                /\ r.hash = TxHash(Get(tx[p]))
                /\ \E i \in DOMAIN executions :
                      executions[i] = forwardToTuple(Get(result[p]).forward)
                /\ r.logs = <<[name |-> "NumberStored", newNumber |-> v,
                               storedBy |-> SenderAddress]>>
                /\ NoLaterWrite(p) => retrieve = v

\* store(1) and then store(2) were relayed and confirmed, and retrieve returns 2
C27_Witness ==
    \E p, q \in Procs :
        /\ StoredWithSuccess(p) /\ StoredWithSuccess(q)
        /\ params[p].callData = EncodeStore(1)
        /\ params[q].callData = EncodeStore(2)
        /\ NoLaterWrite(q) /\ ~NoLaterWrite(p)
        /\ retrieve = 2

\* the batches called so far
Batches == {Get(batch[p]) : p \in {q \in Procs : ~IsNone(batch[q])}}

\* the calls of batch b are started in order, one at a time, each after the
\* result of the one before was collected; the results and the onProgress
\* invocations are one per finished call, in call order; a returned batch has
\* one result per call
BatchSequential(b) ==
    /\ b.started = [k \in 1..Len(b.started) |-> k]
    /\ Len(b.started) \in {Len(b.results), Len(b.results) + 1}
    /\ Len(b.results) <= Len(b.calls)
    /\ b.progress = [k \in 1..Len(b.results) |-> <<k - 1, Len(b.calls), b.results[k]>>]
    /\ \A k \in 1..Len(b.results) :
          b.results[k].success =>
              b.results[k].forward.dataHash = keccak256(EncodeCall(b.calls[k]))
    /\ b.status = "returned" => Len(b.results) = Len(b.calls)

\* every call of the batch can be encoded
WellFormedBatch(b) == \A k \in 1..Len(b.calls) : ~EncodeCallThrows(b.calls[k])

\* batches of calls that encode run in order and are never stopped by a call
\* that returned a failure
WellFormedBatchInOrder ==
    \A b \in Batches :
        /\ BatchSequential(b)
        /\ WellFormedBatch(b) => b.status # "threw"

\* a batch of two calls that encode has returned two results, the first of
\* them a failure
WellFormedBatchFailedFirst ==
    \E b \in Batches :
        /\ WellFormedBatch(b)
        /\ b.status = "returned"
        /\ Len(b.results) = 2
        /\ ~b.results[1].success
        /\ b.results[2].success

\* C28: executeBatchViaMetaTx runs its calls in order, one at a time; a failed
\* call does not stop the batch: the batch never ends without returning its
\* list; the list holds one result per call in call order, and onProgress is
\* invoked once per call, in order, with the call's result.
C28_BatchInOrder ==
    \A b \in Batches :
        /\ BatchSequential(b)
        /\ b.status # "threw"

\* executeViaMetaTx invocation p has built its Forward with a generated nonce
BuiltWithGeneratedNonce(p) ==
    /\ params[p].op = "execute"
    /\ IsNone(params[p].nonce)
    /\ ~IsNone(forward[p])

\* C29: two Forwards built by executeViaMetaTx with generated nonces for the
\* same (from, space) carry different nonces, also when they are built
\* concurrently or within the same second.
C29_GeneratedNoncesDistinct ==
    \A p, q \in Procs :
        (p # q /\ BuiltWithGeneratedNonce(p) /\ BuiltWithGeneratedNonce(q)
           /\ Get(forward[p]).from = Get(forward[q]).from
           /\ Get(forward[p]).space = Get(forward[q]).space) =>
            Get(forward[p]).nonce # Get(forward[q]).nonce

\* a deployViaMetaTx invocation called without a nonce
DeployWithoutNonce(p) == params[p].op = "deploy" /\ IsNone(params[p].nonce)

\* no Forward of deployViaMetaTx is signed or sent with an undefined nonce
UndefinedNonceNeverSigned ==
    \A p \in Procs :
        (params[p].op = "deploy" /\ ~IsNone(forward[p])
           /\ IsNone(Get(forward[p]).nonce)) =>
            /\ signature[p] = EmptyBytes
            /\ IsNone(tx[p])
            /\ ~Requested(p, "sendTransaction")

\* deployViaMetaTx without a nonce has failed in signing
DeployWithoutNonceFailed ==
    \E p \in Procs : DeployWithoutNonce(p) /\ FailedWith(p, "invalid value")

\* C30: deployViaMetaTx called without a nonce generates one: the Forward it
\* builds has a nonce, the invocation does not fail for want of one, and no
\* Forward is signed or sent with an undefined nonce.
C30_DeployGeneratesNonce ==
    /\ \A p \in Procs :
          (DeployWithoutNonce(p) /\ ~IsNone(forward[p])) =>
              ~IsNone(Get(forward[p]).nonce)
    /\ \A p \in Procs : DeployWithoutNonce(p) => ~FailedWith(p, "invalid value")
    /\ UndefinedNonceNeverSigned

(***************************************************************************)
(* Storage: ownership, the stored number, the effective sender.            *)
(***************************************************************************)
\* the call is of a function that carries the onlyOwner modifier
IsOwnerOnly(c) == c.data[1] \in {"increment", "reset", "transferOwnership"}

\* the call reverted and left the number and the owner as they were
RevertedWith(c, message) ==
    /\ ~c.ok
    /\ c.error = message
    /\ c.logs = << >>
    /\ storedNumber = c.before.storedNumber
    /\ owner = c.before.owner

\* the owner can still reset, hand the contract over, and increment (the last
\* unless the number is the largest of its type)
OwnerStillServed ==
    /\ StorageCall(EncodeReset, owner).ok
    /\ StorageCall(EncodeTransferOwnership(User1Address), owner).ok
    /\ storedNumber < MaxUint256 => StorageCall(EncodeIncrement, owner).ok

\* C31: increment, reset and transferOwnership succeed only when the
\* effective sender is the current owner; from any other sender the call
\* reverts with "Only owner", the stored number and the owner stay as they
\* were, and the owner's operations still succeed afterwards.
C31_OnlyOwner ==
    \A c \in lastCall :
        IsOwnerOnly(c) =>
            /\ c.ok => c.sender = c.before.owner
            /\ c.sender # c.before.owner =>
                  /\ RevertedWith(c, "Only owner")
                  /\ OwnerStillServed

\* a user who is not the owner called increment and was turned away
C31_Witness ==
    \E c \in lastCall :
        /\ c.data = EncodeIncrement
        /\ c.caller = User1Address
        /\ c.before.owner = SenderAddress
        /\ RevertedWith(c, "Only owner")
        /\ OwnerStillServed

\* the calls of the functions that carry onlyOwner
OwnerOnlyDatas == {d \in StorageCallDatas : d[1] \in {"increment", "reset", "transferOwnership"}}

\* every owner-only call of the account would now revert with "Only owner"
ShutOut(account) ==
    \A d \in OwnerOnlyDatas :
        /\ ~StorageCall(d, account).ok
        /\ StorageCall(d, account).error = "Only owner"

\* C32: after the owner calls transferOwnership(a) with a not the zero
\* address, the owner is a, the previous owner can no longer call increment,
\* reset or transferOwnership, and the new owner can; transferOwnership of the
\* zero address reverts with "Invalid address" and the owner stays; the owner
\* never becomes the zero address.
C32_TransferOwnership ==
    /\ owner # ZeroAddress
    /\ \A c \in lastCall :
          (c.data[1] = "transferOwnership" /\ c.sender = c.before.owner) =>
              IF c.data[2] = ZeroAddress
              THEN RevertedWith(c, "Invalid address")
              ELSE /\ c.ok
                   /\ owner = c.data[2]
                   /\ storedNumber = c.before.storedNumber
                   /\ c.before.owner # owner => ShutOut(c.before.owner)
                   /\ OwnerStillServed

\* the first owner handed the contract to user1 and is now shut out
C32_Witness ==
    \E c \in lastCall :
        /\ c.data = EncodeTransferOwnership(User1Address)
        /\ c.before.owner = SenderAddress
        /\ c.ok
        /\ owner = User1Address
        /\ ShutOut(SenderAddress)

\* C33: retrieve returns 0 while no write has succeeded, and afterwards the
\* result of the last successful write: v after store(v) by any sender, the
\* previous value plus one after increment, 0 after reset; a call that
\* reverted does not count, and store succeeds for every sender.
C33_RetrieveLastWrite ==
    /\ IsNone(lastCall) => retrieve = 0
    /\ \A c \in lastCall :
          /\ c.data[1] = "store" => (c.ok /\ retrieve = c.data[2])
          /\ (c.data[1] = "increment" /\ c.ok) => retrieve = c.before.storedNumber + 1
          /\ (c.data[1] = "reset" /\ c.ok) => retrieve = 0
          /\ (c.data[1] = "transferOwnership" \/ ~c.ok) =>
                retrieve = c.before.storedNumber

\* the number was 2, which only store(1) followed by increment gives, and a
\* reset brought it back to 0
C33_Witness ==
    \E c \in lastCall :
        /\ c.data = EncodeReset
        /\ c.ok
        /\ c.before.storedNumber = 2
        /\ retrieve = 0

ForwardedStoreNamesUser ==
    \E c \in lastCall :
        /\ c.caller = trustedForwarder
        /\ c.suffix = Some(User1Address)
        /\ c.before.owner = SenderAddress
        /\ c.data = EncodeStore(1)
        /\ c.logs[1].storedBy = User1Address

\* C35: increment by the owner when the stored number is the largest value
\* of its type reverts instead of wrapping around, and the stored number
\* stays the largest value; no increment ever makes the number smaller.
C35_IncrementOverflowReverts ==
    /\ storedNumber \in 0..MaxUint256
    /\ \A c \in lastCall :
          (c.data = EncodeIncrement /\ c.sender = c.before.owner) =>
              IF c.before.storedNumber = MaxUint256
              THEN /\ RevertedWith(c, "Panic(0x11)")
                   /\ retrieve = MaxUint256
              ELSE /\ c.ok
                   /\ retrieve = c.before.storedNumber + 1

\* store(MaxUint256) was followed by the owner's increment, which reverted
C35_Witness ==
    \E c \in lastCall :
        /\ c.data = EncodeIncrement
        /\ c.caller = c.before.owner
        /\ c.before.storedNumber = MaxUint256
        /\ ~c.ok
        /\ storedNumber = MaxUint256

(***************************************************************************)
(* The typed-data domain the entry points sign under.                      *)
(***************************************************************************)
\* the domain the caller asked for: the overrides where given, the defaults
\* elsewhere, the provider's chain id and the hub address
RequestedDomain(a) ==
    Domain(OrElse(a.domainName, "PermissionedMetaTxHub"), OrElse(a.domainVersion, "1"),
           ChainId, a.hubAddress)

\* the invocation of p has signed, under the domain its caller asked for
SignedAsRequested(p) ==
    signature[p] # EmptyBytes => signature[p][2] = RequestedDomain(params[p])

\* C36: the domainName and domainVersion given to prepareForward,
\* executeViaMetaTx and deployViaMetaTx are the name and version of the domain
\* the Forward is signed under, ("PermissionedMetaTxHub", "1") when absent;
\* chainId is the provider's chain id and verifyingContract the hub address.
C36_DomainOverridesUsed == \A p \in Procs : SignedAsRequested(p)

\* executeViaMetaTx and prepareForward with signForward sign under the domain
\* asked for
ExecuteForwardDomainAsRequested ==
    \A p \in Procs : params[p].op \in {"execute", "forward"} => SignedAsRequested(p)

\* executeViaMetaTx signed under the name and version its caller gave
ExecuteSignedUnderOverride ==
    \E p \in Procs :
        /\ params[p].op = "execute"
        /\ params[p].domainName = Some("OtherHub")
        /\ params[p].domainVersion = Some("2")
        /\ signature[p] # EmptyBytes
        /\ signature[p][2] = Domain("OtherHub", "2", ChainId, HubAddress)

\* deployViaMetaTx signs under the defaults whatever its caller gave
DeploySignsUnderDefaults ==
    \A p \in Procs :
        (params[p].op = "deploy" /\ signature[p] # EmptyBytes) =>
            signature[p][2] = Domain("PermissionedMetaTxHub", "1", ChainId,
                                     params[p].hubAddress)

(***************************************************************************)
(* The address executeForward asks the allowlist about.                    *)
(***************************************************************************)
\* position of the field caller in the Forward
CallerIndex == CHOOSE i \in DOMAIN FORWARD_TYPE : FORWARD_TYPE[i] = "caller"

\* invocation p is at the allowlist query or has made it
AtAllowlistQuery(p) == pc[p] = "allowlist" \/ Requested(p, "isCallerAllowed")

MismatchFailsBeforeQuery ==
    \E p \in Procs :
        /\ ~params[p].hasCallerPrepare
        /\ params[p].hasCaller
        /\ params[p].checkAllowlist
        /\ FailedWith(p, "invalid tuple")
        /\ ~Requested(p, "isCallerAllowed")

(***************************************************************************)
(* What the entry points of lib/metaTxExecute.ts return on failure.        *)
(***************************************************************************)
\* the entry points whose whole body sits in a try block
Guarded(p) == params[p].op \in {"execute", "deploy", "simulate"}

\* invocation p has ended
Ended(p) == pc[p] \notin {"idle", "getNetwork", "sign", "getTransactionCount", "populate",
                          "send", "wait", "call"}

\* C38: executeViaMetaTx, deployViaMetaTx and simulateMetaTxCall never raise:
\* an invocation that ends has returned a result, and after a failure at any
\* stage the result has success false and a non-empty error, and for
\* executeViaMetaTx and deployViaMetaTx an empty transactionHash, a null
\* receipt and an empty signature; simulateMetaTxCall never broadcasts.
C38_FailuresReturned ==
    \A p \in Procs :
        Guarded(p) =>
            /\ Ended(p) => (pc[p] = "done" /\ ~IsNone(result[p]))
            /\ \A r \in result[p] :
                  ~r.success =>
                      /\ r.error # ""
                      /\ params[p].op # "simulate" =>
                            /\ r.transactionHash = EmptyBytes
                            /\ r.receipt = None
                            /\ r.signature = EmptyBytes
            /\ params[p].op = "simulate" =>
                  /\ IsNone(tx[p])
                  /\ ~Requested(p, "sendTransaction")

\* executeViaMetaTx failed in the confirmation of a transaction it had sent,
\* and simulateMetaTxCall failed in provider.call: both returned the failure
C38_Witness ==
    \E p, q \in Procs :
        /\ params[p].op = "execute"
        /\ Requested(p, "wait")
        /\ pc[p] = "done"
        /\ ~Get(result[p]).success
        /\ Get(result[p]).error # ""
        /\ params[q].op = "simulate"
        /\ Requested(q, "call")
        /\ pc[q] = "done"
        /\ Get(result[q]) = SimulateFailure("execution reverted")

\* the result invocation p of executeViaMetaTx or deployViaMetaTx returned
Returned(p) ==
    IF params[p].op \in {"execute", "deploy"} /\ pc[p] = "done" THEN result[p] ELSE None

\* C39: a result of executeViaMetaTx or deployViaMetaTx with an empty
\* transactionHash means that the call broadcast no transaction, so a failure
\* of the input or of signing can be told from a failure after the broadcast.
C39_EmptyHashMeansNoBroadcast ==
    \A p \in Procs :
        \A r \in Returned(p) :
            r.transactionHash = EmptyBytes => IsNone(tx[p])

\* a result that reports success names the transaction the call broadcast
SuccessNamesTransaction ==
    \A p \in Procs :
        \A r \in Returned(p) :
            r.success => (~IsNone(tx[p]) /\ r.transactionHash = TxHash(Get(tx[p])))

\* a call whose transaction was broadcast and then reverted returned the
\* result of a call that never sent anything
RevertedAfterBroadcastLooksUnsent ==
    \E p \in Procs :
        /\ ~IsNone(tx[p])
        /\ \E i \in DOMAIN accepted : accepted[i] = Get(tx[p])
        /\ Returned(p) = Some(FailureResult("transaction execution reverted"))

=============================================================================
